---- MODULE Spec2Model ----
(***************************************************************************)
(* Verification model of the FRL recorder / replayer extension.            *)
(*                                                                         *)
(* Part I   : the page (DOM, location, title) and the Selector Resolver.   *)
(* Part II  : the Recorder (capture engine + predicate detector) and the   *)
(*            content-script download path.                                *)
(* Part III : the CDPReplayer (session lifecycle, play loop, waits).       *)
(*                                                                         *)
(* Time is the value of Date.now() in milliseconds.  Timers fire at their  *)
(* due time; the clock never passes a due timer.                           *)
(***************************************************************************)
EXTENDS Integers, Sequences, FiniteSets, TLC

(***************************************************************************)
(* Bounds of the model (not program constants).                            *)
(***************************************************************************)
MaxActions == 2
MaxPageEvents == 1
MaxScroll == 6
MaxSessions == 2
MaxTraceLen == 2
MaxPolls == 1
MaxStops == 1
MaxExternalDetaches == 2
MaxFaults == 1
MaxAttaches == 2
MaxAllowed == 2
MaxLookups == 2
MaxStarts == 2

(***************************************************************************)
(* Program constants.                                                      *)
(***************************************************************************)
WindowMs == 2000
IdleMs == 800
PollMs == 50
GraceMs == 100
FlushMs == 120
HoverThrottleMs == 150
DefaultTabLid == 1

NoTimer == -1
Mask == "***"

PREDICATE_PRIORITY ==
  <<"urlChanged", "domAdded", "ariaLiveUpdated", "textChanged", "layoutStable">>

VARIABLES
  \* ---- page ----
  now,              \* Date.now()
  href,             \* location.href
  title,            \* document.title
  text,             \* own text of the mutable text regions of the page
  detached,         \* elements the page has removed from their parent
  pageEvents,       \* number of page-originated events so far (bounded)
  \* ---- Recorder fields ----
  isRecording,
  steps,
  lastActivityTs,
  scrollBuffer,
  scrollFlushTimer,
  hoverBuffer,
  hoverFlushTimer,
  dragState,
  \* ---- open awaitAndRecordPredicate invocations ----
  wins,
  \* ---- content script ----
  downloaded,       \* FRL_DOWNLOAD responses in flight (at most one)
  \* ---- bookkeeping of the verification ----
  menu,             \* kinds of event the user and the page produce in this run
  sessions,         \* number of start() calls that began a session (bounded)
  nextId,           \* number of action steps pushed so far
  waitsOf,          \* action id -> number of wait steps pushed for it
  urlDifferedOf,    \* action id -> location.href differed from the baseline
                    \* while the window of the action was open
  flagsOf,          \* action id -> the flags of its window when it resolved
  firstOf,          \* action id -> the first flag a poll of its window saw
                    \* set, and when
  kept,             \* a payload of dump() that its caller still holds
  wheel,            \* the wheel event onWheel handled last
  \* ---- the popup's PLAY request ----
  trace,            \* steps of the trace handed to play()
  meta,             \* meta of that trace: [version]
  thinkScale,       \* <<numerator, denominator>> of play()'s thinkScale
  \* ---- CDPReplayer fields ----
  isAttached,
  handlers,         \* bound: boundOnEvent / boundOnDetach are defined;
                    \* registered: listener pairs chrome.debugger holds
  lastAction,       \* lastActionName, lastActionSelectorRaw, lastActionTs
  \* ---- chrome.debugger ----
  session,          \* the debugger is attached to the tab
  calls,            \* chrome.debugger calls whose callback has not run yet
  nextCall,         \* number of chrome.debugger calls made so far
  \* ---- background ----
  entry,            \* tabReplayers has an entry for the tab
  popup,            \* the FRL_POPUP_PLAY handler
  stopper,          \* the FRL_POPUP_STOP_PLAY handler
  \* ---- invocations of the replayer's async methods ----
  att,              \* attach()
  play,             \* play()
  dets,             \* detach(), by caller
  \* ---- bookkeeping of the verification ----
  budget,           \* what the user, the browser and the page may still do
  log,              \* every command handed to chrome.debugger.sendCommand
  marks,            \* step index -> what play() did with the step
  externalSeen,     \* boundOnDetach has run
  detachedAt,       \* time at which the session was last lost
  \* ---- the allow list ----
  hostname,         \* the hostname asked about
  allowed,          \* settings.allowedDomains
  verdict,          \* the results of isDomainAllowed so far
  \* ---- the selector resolver asked directly ----
  asked,            \* the element handed to buildSelector
  built,            \* the BuiltSelector it returned
  \* ---- overlapping FRL_POPUP_PLAY requests for one tab ----
  popups,           \* request -> its FRL_POPUP_PLAY handler
  replayers,        \* request -> the CDPReplayer it constructed
  tabReplayers,     \* the replayer tabReplayers holds for the tab, 0 for none
  debuggee,         \* the tab has a debugger session
  reached,          \* the commands that reached the page, in order
  \* ---- the messages of the popup to the content script ----
  allowlistEnabled, \* settings.allowlistEnabled
  lookups,          \* FRL_START handlers awaiting getSettings()
  sent,             \* FRL_START messages sent so far
  stopped,          \* FRL_STOP was acknowledged and no FRL_START sent since
  refused           \* a FRL_START was answered "Domain not allowlisted"

pageVars == <<now, href, title, text, detached, pageEvents>>
recVars == <<isRecording, steps, lastActivityTs, scrollBuffer, scrollFlushTimer,
             hoverBuffer, hoverFlushTimer, dragState>>
ghostVars == <<waitsOf, urlDifferedOf, flagsOf, firstOf, kept, wheel>>
recorderVars == <<recVars, wins, downloaded, sessions, nextId, ghostVars, menu>>
replayerVars == <<isAttached, handlers, lastAction>>
debuggerVars == <<session, calls, nextCall>>
backgroundVars == <<entry, popup, stopper>>
frameVars == <<att, play, dets>>
playGhostVars == <<budget, log, marks, externalSeen, detachedAt>>
playVars == <<trace, meta, thinkScale, replayerVars, debuggerVars, backgroundVars,
              frameVars, playGhostVars>>
settingsVars == <<hostname, allowed, verdict>>
selectorVars == <<asked, built>>
overlapVars == <<popups, replayers, tabReplayers, debuggee, reached>>
contentVars == <<allowlistEnabled, lookups, sent, stopped, refused>>
vars == <<pageVars, recorderVars, playVars, settingsVars, selectorVars, overlapVars, contentVars>>

(***************************************************************************)
(* Part I.  The page.                                                      *)
(***************************************************************************)
Urls == {"u0", "u1"}
Titles == {"t0", "t1"}
TextVals == {"", "x"}

None == "none"

\* The document: html > body > { panel > {btn, live, key}, pwd, editor,
\* menu > item > link, card, save }.  Attribute "" means the attribute is
\* absent.
Elements == {"html", "body", "panel", "btn", "live", "key", "pwd", "editor",
             "menu", "item", "link", "card", "save"}

Node(tag, parent, roleAttr, id, ariaLabel, titleAttr, placeholder, type,
     labelText, nth, ownText) ==
  [tag |-> tag, parent |-> parent, roleAttr |-> roleAttr, id |-> id,
   ariaLabel |-> ariaLabel, titleAttr |-> titleAttr,
   placeholder |-> placeholder, type |-> type, labelText |-> labelText,
   nth |-> nth, ownText |-> ownText, testid |-> ""]

Dom ==
  [e \in Elements |->
    CASE e = "html"   -> Node("html", None, "", "", "", "", "", "", "", "1", "")
      [] e = "body"   -> Node("body", "html", "", "", "", "", "", "", "", "1", "")
      [] e = "panel"  -> Node("div", "body", "", "panel", "", "", "", "", "", "1", "")
      [] e = "btn"    -> Node("button", "panel", "", "", "", "", "", "", "", "1", "Submit")
      [] e = "live"   -> Node("div", "panel", "", "", "", "", "", "", "", "1", "")
      [] e = "key"    -> Node("input", "panel", "", "", "Field", "", "API key", "text", "", "1", "")
      [] e = "pwd"    -> Node("input", "body", "", "pwd", "", "", "", "password", "Password", "1", "")
      [] e = "editor" -> Node("div", "body", "textbox", "", "", "Secret note", "", "", "", "2", "")
      [] e = "menu"   -> Node("ul", "body", "menu", "", "", "", "", "", "", "1", "")
      [] e = "item"   -> Node("li", "menu", "", "", "", "", "", "", "", "1", "Open")
      [] e = "link"   -> Node("a", "item", "", "", "More", "", "", "", "", "1", "")
      [] e = "card"   -> [Node("div", "body", "", "", "", "", "", "", "", "3", "")
                            EXCEPT !.testid = "main"]
      [] e = "save"   ->
           [Node("button", "body", "", "", "Save", "", "", "", "", "1", "")
              EXCEPT !.testid = "save"]]

\* Elements whose own text the page (or the user, for the editor) changes.
Regions == {"live", "panel", "body", "editor"}
\* Elements carrying aria-live="polite".
AriaLive == {"live"}
\* contenteditable elements: typed text becomes their textContent.
ContentEditable == {"editor"}

\* Children in document order.
Kids(e) ==
  CASE e = "html"  -> <<"body">>
    [] e = "body"  -> <<"panel", "pwd", "editor", "menu", "card", "save">>
    [] e = "panel" -> <<"btn", "live", "key">>
    [] e = "menu"  -> <<"item">>
    [] e = "item"  -> <<"link">>
    [] OTHER       -> <<>>

RECURSIVE Ancestors(_)
\* e and its ancestors, e first.
Ancestors(e) ==
  IF e = None THEN <<>> ELSE <<e>> \o Ancestors(Dom[e].parent)

InSubtree(e, root) == \E i \in 1..Len(Ancestors(e)) : Ancestors(e)[i] = root

OwnText(e, txt) == IF e \in Regions THEN txt[e] ELSE Dom[e].ownText

RECURSIVE TextContent(_, _)
RECURSIVE TextOfKids(_, _, _)
TextOfKids(ks, i, txt) ==
  IF i > Len(ks) THEN <<>>
  ELSE TextContent(ks[i], txt) \o TextOfKids(ks, i + 1, txt)
\* node.textContent, trimmed: the non-empty text pieces of the subtree of e.
\* <input> elements have no text content (their value is not a child node).
TextContent(e, txt) ==
  LET own == IF OwnText(e, txt) = "" THEN <<>> ELSE <<OwnText(e, txt)>>
  IN  own \o TextOfKids(Kids(e), 1, txt)


\* the text of the live regions of the page
LiveText(txt) == [n \in AriaLive |-> TextContent(n, txt)]

(***************************************************************************)
(* Selector Resolver (selector.ts).  A selector string is modelled as the  *)
(* sequence of its pieces.                                                 *)
(***************************************************************************)
NoText == <<>>

roleHintOf(n) ==
  IF n.roleAttr # "" THEN n.roleAttr
  ELSE CASE n.tag = "button" -> "button"
         [] n.tag = "input"  ->
              IF n.type = "checkbox" THEN "checkbox"
              ELSE IF n.type = "radio" THEN "radio"
              ELSE IF n.type \in {"submit", "button"} THEN "button"
              ELSE "textbox"
         [] n.tag = "select"   -> "combobox"
         [] n.tag = "textarea" -> "textbox"
         [] OTHER -> ""

roleHintFor(e) == roleHintOf(Dom[e])

\* the label when there is one, else the text
labelOr(n, content) == IF n.ariaLabel # "" THEN <<n.ariaLabel>> ELSE content

textHintFor(e, txt) == labelOr(Dom[e], TextContent(e, txt))

\* aria-label, title, then the text
nameOf(n, content) ==
  IF n.ariaLabel # "" THEN <<n.ariaLabel>>
  ELSE IF n.titleAttr # "" THEN <<n.titleAttr>>
  ELSE content

\* accessible name approximation: aria-label, title, then text content
accessibleName(e, txt) == nameOf(Dom[e], TextContent(e, txt))

DISALLOWED_ARIA_ROLES == {"presentation", "none"}

\* role and name joined by the operator of the match
roleAndName(role, name, op) ==
  IF role = "" \/ name = NoText THEN <<>>
  ELSE IF role \in DISALLOWED_ARIA_ROLES THEN <<>>
  ELSE <<"role=", role, op>> \o name

buildAriaSelector(e, txt) ==
  roleAndName(roleHintFor(e), accessibleName(e, txt), " name=")

buildAriaSelectorContains(e, txt) ==
  roleAndName(roleHintFor(e), accessibleName(e, txt), " name~=")

\* the tag followed by the stable attributes, nothing when there is none
tagWith(tag, attrs) == IF attrs = <<>> THEN <<>> ELSE <<tag>> \o attrs

stableAttributesOf(n) ==
  (IF n.testid # "" THEN <<"[data-testid=", n.testid, "]">> ELSE <<>>)
    \o (IF n.type # "" THEN <<"[type=", n.type, "]">> ELSE <<>>)
    \o (IF n.ariaLabel # "" THEN <<"[aria-label=", n.ariaLabel, "]">> ELSE <<>>)
    \o (IF n.roleAttr # "" THEN <<"[role=", n.roleAttr, "]">> ELSE <<>>)

buildStableAttributeSelector(e) == tagWith(Dom[e].tag, stableAttributesOf(Dom[e]))

\* the id, else the stable attributes, else the position among the siblings
partOf(n, stable) ==
  IF n.id # "" THEN <<"#", n.id>>
  ELSE IF stable # <<>> THEN stable
  ELSE <<n.tag, ":nth-of-type(", n.nth, ")">>

cssPart(e) == partOf(Dom[e], buildStableAttributeSelector(e))

\* the chain to the parent and the part of the element, joined as a child
joined(up, part) == IF up = <<>> THEN part ELSE up \o <<" > ">> \o part

RECURSIVE buildCompactCssSelector(_)
\* child chain from the nearest id anchor (or from below <html>) down to e
buildCompactCssSelector(e) ==
  IF e = None \/ e = "html" THEN <<>>
  ELSE IF Dom[e].id # "" THEN cssPart(e)
  ELSE joined(buildCompactCssSelector(Dom[e].parent), cssPart(e))

finalize(selector, strategy, e, txt) ==
  [selector |-> selector, strategy |-> strategy, nameMatch |-> "",
   textHint |-> textHintFor(e, txt), roleHint |-> roleHintFor(e),
   alternatives |-> <<>>]

\* the value of the attribute as a selector, nothing for an absent one
attrSelector(name, value) == IF value # "" THEN <<name, value, "]">> ELSE <<>>

\* the first of data-testid, data-test, data-qa that is set
buildDataAttrSelector(e) == attrSelector("[data-testid=", Dom[e].testid)

\* the test attributes are tried before the role and name
dataFirst(aria, contains, data, css, e, txt) ==
  IF data # <<>> THEN finalize(data, "data", e, txt)
  ELSE IF aria # <<>>
  THEN [finalize(aria, "aria", e, txt)
          EXCEPT !.nameMatch = "exact", !.alternatives = <<contains>>]
  ELSE finalize(css, "css", e, txt)

\* the role and name, then the test attributes, then the css chain
inPriority(aria, contains, data, css, e, txt) ==
  IF aria # <<>>
  THEN [finalize(aria, "aria", e, txt)
          EXCEPT !.nameMatch = "exact", !.alternatives = <<contains>>]
  ELSE IF data # <<>> THEN finalize(data, "data", e, txt)
  ELSE finalize(css, "css", e, txt)

buildSelector_DataFirst(e, txt) ==
  dataFirst(buildAriaSelector(e, txt), buildAriaSelectorContains(e, txt),
            buildDataAttrSelector(e), buildCompactCssSelector(e), e, txt)

buildSelector(e, txt) ==
  inPriority(buildAriaSelector(e, txt), buildAriaSelectorContains(e, txt),
             buildDataAttrSelector(e), buildCompactCssSelector(e), e, txt)

NoSelector ==
  [selector |-> <<>>, strategy |-> "", nameMatch |-> "", textHint |-> NoText,
   roleHint |-> "", alternatives |-> <<>>]

(***************************************************************************)
(* Part II.  The Recorder (recorder.ts).                                   *)
(***************************************************************************)
NoBuffer == [el |-> None, dx |-> 0, dy |-> 0, lastTs |-> 0]
NoDrag == [startEl |-> None, active |-> FALSE]

NoFlags ==
  [urlChanged |-> FALSE, domAdded |-> FALSE, ariaLiveUpdated |-> FALSE,
   textChanged |-> FALSE, layoutStable |-> FALSE]

RECURSIVE pickFrom(_, _)
pickFrom(flags, i) ==
  IF i > Len(PREDICATE_PRIORITY) THEN ""
  ELSE IF flags[PREDICATE_PRIORITY[i]] THEN PREDICATE_PRIORITY[i]
  ELSE pickFrom(flags, i + 1)

\* first set flag in priority order, "" (null) when none is set
pickBestAvailable(flags) == pickFrom(flags, 1)

\* an ActionStep as the handlers build it: no tabLid yet (0 = undefined);
\* id, el and typed are bookkeeping: the action's number, its target element
\* and the characters the user typed
ActionStep(name, e, to, txt, redacted, id, t, pagetext) ==
  [kind |-> "action", name |-> name, predicate |-> "",
   selector |-> buildSelector(e, pagetext),
   toSelector |-> IF to = None THEN NoSelector ELSE buildSelector(to, pagetext),
   text |-> txt, redacted |-> redacted, url |-> "", dx |-> 0, dy |-> 0,
   tabLid |-> 0, timestamp |-> t, id |-> id, el |-> e, typed |-> ""]

WaitPredicateStep(pred, containerSel, id, t) ==
  [kind |-> "waitForPredicate", name |-> "", predicate |-> pred,
   selector |-> containerSel, toSelector |-> NoSelector, text |-> "",
   redacted |-> FALSE, url |-> "", dx |-> 0, dy |-> 0, tabLid |-> 0,
   timestamp |-> t, id |-> id, el |-> None, typed |-> ""]

\* a push that appends the step as the handler built it
pushStep_Unstamped(list, step) == Append(list, step)

\* pushStep: stamp the default logical tab id, then append
pushStep(list, step) ==
  Append(list, IF step.tabLid = 0 THEN [step EXCEPT !.tabLid = DefaultTabLid]
               ELSE step)

isInteractiveTag(e) ==
  \/ Dom[e].tag \in {"button", "a", "input", "textarea", "select", "summary", "label"}
  \/ (Dom[e].roleAttr # "" /\ Dom[e].roleAttr \notin {"presentation", "none"})
  \/ e \in ContentEditable

RECURSIVE climbToAccessible(_, _)
climbToAccessible(cur, node) ==
  IF cur = None \/ cur = "body" THEN node
  ELSE IF isInteractiveTag(cur) \/ Dom[cur].id # "" THEN cur
  ELSE climbToAccessible(Dom[cur].parent, node)

\* nearest semantically meaningful ancestor of the raw event target
normalizeTargetElement(e) == climbToAccessible(e, e)

\* e and the ancestors it has now: a removed element has none
AncestorsNow(e, gone) == IF e \in gone THEN <<e>> ELSE Ancestors(e)

isMenuish(e, gone) ==
  \/ Dom[e].roleAttr \in {"menuitem", "option", "menu", "listbox"}
  \/ Dom[e].tag \in {"option", "li"}
  \/ \E i \in 1..Len(AncestorsNow(e, gone)) :
        LET a == Dom[AncestorsNow(e, gone)[i]]
        IN  a.roleAttr \in {"menu", "listbox"}
              \/ (a.tag \in {"ul", "ol"} /\ a.roleAttr # "")

RECURSIVE detectContainer(_)
detectContainer(e) ==
  IF e = None \/ e = "body" THEN "body"
  ELSE IF Dom[e].roleAttr \in {"presentation", "none"}
       THEN detectContainer(Dom[e].parent)
  ELSE IF Dom[e].roleAttr # "" \/ Dom[e].id # "" THEN e
  ELSE detectContainer(Dom[e].parent)

\* the sensitivity pattern /password|passcode|otp|one-time|secret|api key|token/i
SensitiveWords == {"Password", "API key", "Secret note"}
matchesSensitive(str) == str \in SensitiveWords

firstNonEmpty(a, b, c) == IF a # "" THEN a ELSE IF b # "" THEN b ELSE c

detectSensitivity(e) ==
  \/ (Dom[e].tag = "input" /\ Dom[e].type = "password")
  \/ matchesSensitive(Dom[e].labelText)
  \/ matchesSensitive(firstNonEmpty(Dom[e].ariaLabel, Dom[e].titleAttr,
                                    Dom[e].placeholder))

\* the synchronous prefix of awaitAndRecordPredicate(target): baselines,
\* cleared flags, observers installed, first poll sleep started
OpenWindow(target, id, t, url, pagetext) ==
  LET c == detectContainer(target) IN
  [id |-> id, container |-> c, containerSel |-> buildSelector(c, pagetext),
   baselineUrl |-> url, baselineTitle |-> title,
   baselineText |-> TextContent(c, pagetext), flags |-> NoFlags, start |-> t,
   pc |-> "poll", wakeAt |-> t + PollMs, chosen |-> "",
   urlDiffered |-> FALSE]

\* budget of the model: action steps pushed or already buffered
Reserved ==
  nextId + (IF scrollBuffer.el # None THEN 1 ELSE 0)
         + (IF hoverBuffer.el # None THEN 1 ELSE 0)
         + (IF dragState.active THEN 1 ELSE 0)

\* push one action step and start its observation window; base is the set
\* of windows already open, url and pagetext the page as the handler sees it
Capture(step, target, base, url, pagetext) ==
  /\ steps' = pushStep(steps, step)
  /\ wins' = base \cup {OpenWindow(target, nextId, now, url, pagetext)}
  /\ lastActivityTs' = now
  /\ nextId' = nextId + 1
(***************************************************************************)
(* Inputs of the model: the raw event targets each kind of user event is   *)
(* tried on, the typed characters and the wheel deltas.                    *)
(***************************************************************************)
ClickTargets == {"btn"}
KeyTargets == {"pwd"}
InputTargets == {"pwd", "key", "editor"}
Chars == {"s"}
WheelTargets == {"body", "live"}
WheelDeltas == {<<1, 2>>}
HoverTargets == {"link"}
DragEnds == {"live", "btn"}
Removable == {"link"}

\* the runs explored: in each, the user and the page produce the kinds of
\* event of one menu
Menus ==
  {{"click", "dblclick", "press", "mutate"},
   {"click", "append", "activity"},
   {"click", "title", "navigate"},
   {"type", "mutate"},
   {"wheel", "hover", "drag", "click", "detach"}}

\* ---- start / stop ----
Start ==
  /\ ~isRecording
  /\ sessions < MaxSessions
  /\ sessions' = sessions + 1
  /\ isRecording' = TRUE
  /\ steps' = <<>>
  /\ UNCHANGED <<pageVars, lastActivityTs, scrollBuffer, scrollFlushTimer,
                 hoverBuffer, hoverFlushTimer, dragState, wins, downloaded,
                 nextId, ghostVars, menu>>

\* a flush that gives up the buffer without recording it
FlushScroll_Drop(base, next) ==
  /\ scrollBuffer' = next
  /\ wins' = base
  /\ UNCHANGED <<steps, nextId>>
  /\ lastActivityTs' = IF next.el # None THEN now ELSE lastActivityTs

\* flushScrollBuffer; next is the buffer the caller leaves behind
FlushScroll(base, next) ==
  /\ scrollBuffer' = next
  /\ IF scrollBuffer.el = None
     THEN /\ wins' = base
          /\ UNCHANGED <<steps, nextId>>
          /\ lastActivityTs' = IF next.el # None THEN now ELSE lastActivityTs
     ELSE Capture([ActionStep("scroll", scrollBuffer.el, None, "", FALSE,
                              nextId, now, text)
                     EXCEPT !.dx = scrollBuffer.dx, !.dy = scrollBuffer.dy],
                  scrollBuffer.el, base, href, text)

Stop ==
  /\ isRecording' = FALSE
  /\ FlushScroll(wins, NoBuffer)
  /\ UNCHANGED <<pageVars, scrollFlushTimer, hoverBuffer, hoverFlushTimer,
                 dragState, downloaded, ghostVars, sessions, menu>>

\* ---- click, dblclick, Enter ----
Simple(name, raw, target) ==
  /\ isRecording
  /\ Reserved < MaxActions
  /\ Capture(ActionStep(name, target, None, "", FALSE, nextId, now, text),
             target, wins, href, text)
  /\ UNCHANGED <<pageVars, isRecording, scrollBuffer, scrollFlushTimer,
                 hoverBuffer, hoverFlushTimer, dragState, downloaded, ghostVars, sessions, menu>>

OnClick(raw) == Simple("click", raw, normalizeTargetElement(raw))

OnDblClick(raw) == Simple("dblclick", raw, normalizeTargetElement(raw))

OnKeydown(raw) == Simple("press", raw, raw)

\* ---- mutation observers of the open windows ----
nodeInAriaLive(t) ==
  \E i \in 1..Len(Ancestors(t)) : Ancestors(t)[i] \in AriaLive

Observes(w, t) == InSubtree(t, w.container)

\* the MutationObserver callback of window w for one mutation record on t
OnMutation(w, t, addsElement, pagetext) ==
  [w EXCEPT
     !.flags = [@ EXCEPT
        !.domAdded = @ \/ addsElement,
        !.ariaLiveUpdated = @ \/ nodeInAriaLive(t),
        !.textChanged = @ \/ (TextContent(w.container, pagetext) # w.baselineText)]]

DeliverMutation(ws, t, addsElement, pagetext) ==
  {IF Observes(w, t) THEN OnMutation(w, t, addsElement, pagetext) ELSE w :
     w \in ws}

\* ---- typing ----
OnInput(e, ch) ==
  LET typed == IF e \in ContentEditable THEN [text EXCEPT ![e] = @ \o ch] ELSE text
      isSensitive == detectSensitivity(e)
      recordedText == IF isSensitive THEN Mask ELSE ch
      old == IF e \in ContentEditable
             THEN DeliverMutation(wins, e, FALSE, typed) ELSE wins
  IN  /\ isRecording
      /\ Reserved < MaxActions
      /\ text' = typed
      /\ Capture([ActionStep("type", e, None, recordedText, isSensitive,
                             nextId, now, typed) EXCEPT !.typed = ch],
                 e, old, href, typed)
      /\ UNCHANGED <<detached, now, href, title, pageEvents, isRecording, scrollBuffer,
                     scrollFlushTimer, hoverBuffer, hoverFlushTimer, dragState,
                     downloaded, ghostVars, sessions, menu>>

\* ---- wheel, coalesced per element ----
\* no wheel event handled yet; n is the parity of the number of events
NoWheel == [el |-> None, d |-> <<0, 0>>, session |-> 0, n |-> 0]

OnWheel(raw, d) ==
  LET el == normalizeTargetElement(raw) IN
  /\ isRecording
  /\ IF scrollBuffer.el = el
     THEN /\ scrollBuffer.dx + scrollBuffer.dy + d[1] + d[2] <= MaxScroll
          /\ scrollBuffer' = [scrollBuffer EXCEPT !.dx = @ + d[1], !.dy = @ + d[2]]
          /\ lastActivityTs' = now
          /\ UNCHANGED <<steps, wins, nextId>>
     ELSE /\ Reserved < MaxActions
          /\ FlushScroll(wins, [NoBuffer EXCEPT !.el = el, !.dx = d[1], !.dy = d[2]])
  /\ scrollFlushTimer' = now + FlushMs
  /\ wheel' = [el |-> el, d |-> d, session |-> sessions, n |-> 1 - wheel.n]
  /\ UNCHANGED <<pageVars, isRecording, hoverBuffer, hoverFlushTimer, dragState,
                 downloaded, waitsOf, urlDifferedOf, flagsOf, firstOf, kept,
                 sessions, menu>>

ScrollTimer ==
  /\ scrollFlushTimer = now
  /\ scrollFlushTimer' = NoTimer
  /\ FlushScroll(wins, NoBuffer)
  /\ UNCHANGED <<pageVars, isRecording, hoverBuffer, hoverFlushTimer, dragState,
                 downloaded, ghostVars, sessions, menu>>

\* ---- hover over menu-like targets ----
OnMouseMove(raw) ==
  LET el == normalizeTargetElement(raw) IN
  /\ isRecording
  /\ isMenuish(el, detached)
  /\ IF hoverBuffer.el = el /\ now - hoverBuffer.lastTs < HoverThrottleMs
     THEN /\ hoverBuffer' = [hoverBuffer EXCEPT !.lastTs = now]
          /\ UNCHANGED hoverFlushTimer
     ELSE /\ hoverBuffer.el # None \/ Reserved < MaxActions
          /\ hoverBuffer' = [NoBuffer EXCEPT !.el = el, !.lastTs = now]
          /\ hoverFlushTimer' = now + FlushMs
  /\ UNCHANGED <<pageVars, isRecording, steps, lastActivityTs, scrollBuffer,
                 scrollFlushTimer, dragState, wins, downloaded, nextId, ghostVars, sessions, menu>>

\* the hover flush timer: flushHoverBuffer
HoverTimer ==
  /\ hoverFlushTimer = now
  /\ hoverFlushTimer' = NoTimer
  /\ hoverBuffer' = NoBuffer
  /\ IF hoverBuffer.el = None
     THEN UNCHANGED <<steps, wins, lastActivityTs, nextId>>
     ELSE IF isMenuish(hoverBuffer.el, detached)
     THEN Capture(ActionStep("hover", hoverBuffer.el, None, "", FALSE, nextId,
                             now, text),
                  hoverBuffer.el, wins, href, text)
     ELSE /\ steps' = pushStep(steps, ActionStep("hover", hoverBuffer.el, None,
                                                 "", FALSE, nextId, now, text))
          /\ nextId' = nextId + 1
          /\ UNCHANGED <<wins, lastActivityTs>>
  /\ UNCHANGED <<pageVars, isRecording, scrollBuffer, scrollFlushTimer,
                 dragState, downloaded, ghostVars, sessions, menu>>

\* ---- mouse down / up: drag or text selection ----
OnMouseDown(raw) ==
  /\ isRecording
  /\ dragState.active \/ Reserved < MaxActions
  /\ dragState' = [startEl |-> normalizeTargetElement(raw), active |-> TRUE]
  /\ UNCHANGED <<pageVars, isRecording, steps, lastActivityTs, scrollBuffer,
                 scrollFlushTimer, hoverBuffer, hoverFlushTimer, wins,
                 downloaded, nextId, ghostVars, sessions, menu>>

OnMouseUp(raw, isSelection) ==
  LET endEl == normalizeTargetElement(raw) IN
  /\ isRecording
  /\ dragState.active
  /\ dragState' = [dragState EXCEPT !.active = FALSE]
  /\ Capture(ActionStep(IF isSelection THEN "highlight" ELSE "drag",
                        dragState.startEl, endEl,
                        IF isSelection THEN "selected" ELSE "", FALSE, nextId,
                        now, text),
             endEl, wins, href, text)
  /\ UNCHANGED <<pageVars, isRecording, scrollBuffer, scrollFlushTimer,
                 hoverBuffer, hoverFlushTimer, downloaded, ghostVars, sessions, menu>>

(***************************************************************************)
(* Page-originated events.                                                 *)
(***************************************************************************)
MutationTargets == {"live", "panel", "editor"}

Toggle(v) == IF v = "" THEN "x" ELSE ""

\* a DOM mutation on element t: it may add an element node and may change
\* the text of t; the mutation observers of the windows that contain t run
Mutate(t, addsElement, changesText) ==
  LET pagetext == IF changesText THEN [text EXCEPT ![t] = Toggle(@)] ELSE text IN
  /\ pageEvents < MaxPageEvents
  /\ pageEvents' = pageEvents + 1
  /\ text' = pagetext
  /\ wins' = DeliverMutation(wins, t, addsElement, pagetext)
  /\ lastActivityTs' = IF \E w \in wins : Observes(w, t) THEN now
                       ELSE lastActivityTs
  /\ UNCHANGED <<detached, now, href, title, isRecording, steps, scrollBuffer,
                 scrollFlushTimer, hoverBuffer, hoverFlushTimer, dragState,
                 downloaded, nextId, ghostVars, sessions, menu>>

\* the page removes element e from its parent: a childList record on the
\* parent for the windows that observe it
DetachNode(e) ==
  /\ pageEvents < MaxPageEvents
  /\ e \notin detached
  /\ pageEvents' = pageEvents + 1
  /\ detached' = detached \cup {e}
  /\ wins' = DeliverMutation(wins, Dom[e].parent, FALSE, text)
  /\ lastActivityTs' = IF \E w \in wins : Observes(w, Dom[e].parent) THEN now
                       ELSE lastActivityTs
  /\ UNCHANGED <<now, href, title, text, isRecording, steps, scrollBuffer,
                 scrollFlushTimer, hoverBuffer, hoverFlushTimer, dragState,
                 downloaded, nextId, ghostVars, sessions, menu>>

\* the title observer as the superseded recorder had it: any change of title
\* sets urlChanged
OnTitleMutation_AnyTitle(w, newTitle, url) ==
  [w EXCEPT !.flags.urlChanged = TRUE]

\* the title observer callback of window w
OnTitleMutation(w, newTitle, url) ==
  IF newTitle # w.baselineTitle /\ url # w.baselineUrl
  THEN [w EXCEPT !.flags.urlChanged = TRUE]
  ELSE w

SeeUrl(w, url) == [w EXCEPT !.urlDiffered = @ \/ (url # w.baselineUrl)]

\* a page script sets document.title to t and leaves the location at u (a
\* route change made in the page's own world is not heard by the recorder's
\* listeners); the title observers of the open windows run afterwards
TitleChange(t, u) ==
  /\ pageEvents < MaxPageEvents
  /\ t # title
  /\ pageEvents' = pageEvents + 1
  /\ title' = t
  /\ href' = u
  /\ wins' = {OnTitleMutation(SeeUrl(w, u), t, u) : w \in wins}
  /\ lastActivityTs' = IF wins # {} THEN now ELSE lastActivityTs
  /\ UNCHANGED <<detached, now, text, isRecording, steps, scrollBuffer,
                 scrollFlushTimer, hoverBuffer, hoverFlushTimer, dragState,
                 downloaded, nextId, ghostVars, sessions, menu>>

\* the popstate / hashchange / frl:locationchange listener of window w
urlListener(w, url) ==
  IF url # w.baselineUrl THEN [w EXCEPT !.flags.urlChanged = TRUE] ELSE w

\* the location becomes u; with fire, a location event is dispatched (history
\* push/replace, popstate, hashchange), otherwise the event is still pending
Navigate(u, fire) ==
  LET seen == {SeeUrl(w, u) : w \in wins}
      heard == {urlListener(w, u) : w \in seen}
  IN
  /\ pageEvents < MaxPageEvents
  /\ fire \/ u # href
  /\ pageEvents' = pageEvents + 1
  /\ href' = u
  /\ IF ~fire
     THEN /\ wins' = seen
          /\ UNCHANGED <<steps, lastActivityTs, nextId>>
     ELSE IF ~isRecording
     THEN /\ wins' = heard
          /\ UNCHANGED <<steps, lastActivityTs, nextId>>
     ELSE \* Recorder.onLocationChange
          /\ Reserved < MaxActions
          /\ Capture([ActionStep("navigate", "html", None, "", FALSE, nextId,
                                 now, text) EXCEPT !.url = u],
                     "html", heard, u, text)
  /\ UNCHANGED <<detached, now, title, text, isRecording, scrollBuffer, scrollFlushTimer,
                 hoverBuffer, hoverFlushTimer, dragState, downloaded, ghostVars, sessions, menu>>

\* scroll / resize events of the page: Recorder.onAnyActivity
OnAnyActivity ==
  /\ isRecording
  /\ lastActivityTs' = now
  /\ UNCHANGED <<detached, now, href, title, text, pageEvents, isRecording, steps, scrollBuffer,
                 scrollFlushTimer, hoverBuffer, hoverFlushTimer, dragState,
                 wins, downloaded, nextId, ghostVars, sessions, menu>>

(***************************************************************************)
(* The wait loop of awaitAndRecordPredicate, resumed when its sleep ends.  *)
(***************************************************************************)
NoneSeen == [pred |-> "", at |-> NoTimer]

\* what the loop had seen when window w resolves to chosen: the flag that
\* started the grace period, urlChanged seen by the poll that resolves at
\* once, or nothing (the window ran out)
FirstSeen(w, chosen) ==
  IF w.pc = "grace" THEN [pred |-> w.chosen, at |-> w.wakeAt - GraceMs]
  ELSE IF w.pc = "poll" /\ chosen = "urlChanged" THEN [pred |-> chosen, at |-> now]
  ELSE NoneSeen

\* a wait step stamped with the time its window was opened
Resolve_StampedAtStart(w, chosen) ==
  /\ steps' = pushStep(steps, WaitPredicateStep(chosen, w.containerSel, w.id, w.start))
  /\ wins' = wins \ {w}
  /\ waitsOf' = [waitsOf EXCEPT ![w.id] = @ + 1]
  /\ urlDifferedOf' = [urlDifferedOf EXCEPT ![w.id] = w.urlDiffered]
  /\ flagsOf' = [flagsOf EXCEPT ![w.id] = w.flags]
  /\ firstOf' = [firstOf EXCEPT ![w.id] = FirstSeen(w, chosen)]
  /\ UNCHANGED <<kept, wheel>>

\* append the wait step of window w and clean up its observers
Resolve(w, chosen) ==
  /\ steps' = pushStep(steps, WaitPredicateStep(chosen, w.containerSel, w.id, now))
  /\ wins' = wins \ {w}
  /\ waitsOf' = [waitsOf EXCEPT ![w.id] = @ + 1]
  /\ urlDifferedOf' = [urlDifferedOf EXCEPT ![w.id] = w.urlDiffered]
  /\ flagsOf' = [flagsOf EXCEPT ![w.id] = w.flags]
  /\ firstOf' = [firstOf EXCEPT ![w.id] = FirstSeen(w, chosen)]
  /\ UNCHANGED <<kept, wheel>>

Sleep(w, pc, ms, flags, chosen) ==
  /\ wins' = (wins \ {w}) \cup
               {[w EXCEPT !.pc = pc, !.wakeAt = now + ms, !.flags = flags,
                          !.chosen = chosen]}
  /\ UNCHANGED <<steps, ghostVars, sessions, menu>>

\* the grace period changes nothing: the flag seen first is recorded
afterGrace_First(w) == w.chosen

\* maybeBetter = pickBestAvailable(flags); chosen = maybeBetter ?? chosen
afterGrace(w) ==
  IF pickBestAvailable(w.flags) # "" THEN pickBestAvailable(w.flags) ELSE w.chosen

\* a fallback that waits for the page to be idle, however long that takes
awaitsIdle_Uncapped(w) == now - lastActivityTs < IdleMs

\* the condition of the fallback loop: the window is still running and the
\* page has not been idle for IdleMs
awaitsIdle(w) == now - w.start < WindowMs /\ now - lastActivityTs < IdleMs

WinWake(w) ==
  LET stable == now - lastActivityTs >= IdleMs
      polled == [w.flags EXCEPT !.layoutStable = stable]
  IN
  /\ w.wakeAt = now
  /\ CASE w.pc = "poll" ->
            IF now - w.start < WindowMs
            THEN IF pickBestAvailable(polled) = ""
                 THEN Sleep(w, "poll", PollMs, polled, "")
                 ELSE IF pickBestAvailable(polled) = "urlChanged"
                 THEN Resolve(w, "urlChanged")
                 ELSE Sleep(w, "grace", GraceMs, polled, pickBestAvailable(polled))
            ELSE \* window over with nothing chosen: fall back to layoutStable
                 IF awaitsIdle(w)
                 THEN Sleep(w, "idle", PollMs, w.flags, "")
                 ELSE Resolve(w, "layoutStable")
       [] w.pc = "grace" -> Resolve(w, afterGrace(w))
       [] w.pc = "idle" ->
            IF awaitsIdle(w)
            THEN Sleep(w, "idle", PollMs, w.flags, "")
            ELSE Resolve(w, "layoutStable")
  /\ UNCHANGED <<pageVars, isRecording, lastActivityTs, scrollBuffer,
                 scrollFlushTimer, hoverBuffer, hoverFlushTimer, dragState,
                 downloaded, nextId, sessions, menu>>

(***************************************************************************)
(* The clock.                                                              *)
(***************************************************************************)
CeilTo(d, q) == ((d + q - 1) \div q) * q

Min(S) == CHOOSE t \in S : \A u \in S : t <= u

\* the flags of w as the poll at time t computes them (updateLayoutStable)
PolledAt(w, t) == [w.flags EXCEPT !.layoutStable = t - lastActivityTs >= IdleMs]

\* a poll of w at time t that finds the window still open and no flag set
\* only sleeps another PollMs
IsIdlePoll(w, t) ==
  /\ w.pc = "poll"
  /\ t - w.start < WindowMs
  /\ pickBestAvailable(PolledAt(w, t)) = ""

\* the first poll instant of w, from its next one on, that is not idle
NextBusyPoll(w) ==
  IF ~IsIdlePoll(w, w.wakeAt) THEN w.wakeAt
  ELSE LET target == Min({lastActivityTs + IdleMs, w.start + WindowMs})
       IN  w.wakeAt + CeilTo(target - w.wakeAt, PollMs)

\* the last poll of w before NextBusyPoll(w): what happens between the two
\* is seen by the busy poll only
LastIdlePoll(w) ==
  IF IsIdlePoll(w, w.wakeAt) THEN NextBusyPoll(w) - PollMs ELSE w.wakeAt

Timers ==
  {NextBusyPoll(w) : w \in wins}
    \cup (IF "activity" \in menu THEN {LastIdlePoll(w) : w \in wins} ELSE {})
    \cup (IF scrollFlushTimer # NoTimer THEN {scrollFlushTimer} ELSE {})
    \cup (IF hoverFlushTimer # NoTimer THEN {hoverFlushTimer} ELSE {})

\* window w after its idle polls before time t have run
SkipIdlePolls(w, t) ==
  IF w.wakeAt >= t THEN w
  ELSE [w EXCEPT !.wakeAt = w.wakeAt + CeilTo(t - w.wakeAt, PollMs)]

\* time passes up to the next timer that does something (the idle polls on
\* the way run and sleep again)
Advance ==
  /\ Timers # {}
  /\ Min(Timers) > now
  /\ now' = Min(Timers)
  /\ wins' = {SkipIdlePolls(w, now') : w \in wins}
  /\ UNCHANGED <<detached, href, title, text, pageEvents, recVars, downloaded, nextId,
                 ghostVars, sessions, menu>>

(***************************************************************************)
(* Content script: FRL_DOWNLOAD = Recorder.dump() + dedupeConsecutiveWaits *)
(***************************************************************************)
waitKey(step) == <<step.predicate, step.selector>>

RECURSIVE dedupeFrom(_, _, _, _)
dedupeFrom(list, i, lastWaitKey, result) ==
  IF i > Len(list) THEN result
  ELSE LET step == IF list[i].tabLid = 0
                   THEN [list[i] EXCEPT !.tabLid = DefaultTabLid] ELSE list[i]
       IN  IF step.kind = "waitForPredicate"
           THEN IF lastWaitKey = <<waitKey(step)>>
                THEN dedupeFrom(list, i + 1, lastWaitKey, result)
                ELSE dedupeFrom(list, i + 1, <<waitKey(step)>>, Append(result, step))
           ELSE dedupeFrom(list, i + 1, <<>>, Append(result, step))

\* an answer that keeps every step of the dump
dedupeConsecutiveWaits_KeepAll(list) == list

dedupeConsecutiveWaits(list) == dedupeFrom(list, 1, <<>>, <<>>)

\* no payload held: an array is held with its elements, and is either an
\* array of its own or the recorder's list itself
NoDump == [held |-> FALSE, own |-> FALSE, items |-> <<>>]

\* the recorder's list itself, not a copy
slice_Alias(list) == [held |-> TRUE, own |-> FALSE, items |-> list]

\* this.steps.slice(): a new array of the same step objects
slice(list) == [held |-> TRUE, own |-> TRUE, items |-> list]

\* the steps a held payload shows now
Items(payload) == IF payload.own THEN payload.items ELSE steps

dump == slice(steps).items

\* the step objects of the list after the loop of dedupeConsecutiveWaits has
\* stamped those without a tabLid: a dump shares them with the recorder
stampedInPlace(list) ==
  [i \in 1..Len(list) |->
     IF list[i].tabLid = 0 THEN [list[i] EXCEPT !.tabLid = DefaultTabLid] ELSE list[i]]

\* no download response in flight
NoPayload == <<>>

FRL_DOWNLOAD ==
  /\ Len(downloaded) = 0
  /\ downloaded' = <<dedupeConsecutiveWaits(dump)>>
  /\ steps' = stampedInPlace(steps)
  /\ UNCHANGED <<pageVars, isRecording, lastActivityTs, scrollBuffer, scrollFlushTimer,
                 hoverBuffer, hoverFlushTimer, dragState, wins, nextId, ghostVars,
                 sessions, menu, playVars, settingsVars, overlapVars, contentVars, selectorVars>>

\* a caller of dump() keeps the payload it got
Dump ==
  /\ ~kept.held
  /\ Len(downloaded) = 0
  /\ kept' = slice(steps)
  /\ UNCHANGED <<pageVars, recVars, wins, downloaded, sessions, nextId, waitsOf,
                 urlDifferedOf, flagsOf, firstOf, wheel, menu, playVars,
                 settingsVars, overlapVars, contentVars, selectorVars>>

\* the response reaches the popup
Delivered ==
  /\ Len(downloaded) > 0
  /\ downloaded' = NoPayload
  /\ UNCHANGED <<pageVars, recVars, wins, nextId, ghostVars, sessions, menu, playVars, settingsVars, overlapVars, contentVars,
                 selectorVars>>

(***************************************************************************)
(* Part III.  The replayer (src/extension/src/replayer.ts), the            *)
(* chrome.debugger transport it drives and the play handlers of the        *)
(* background (src/extension/src/background.ts).  An invocation of an      *)
(* async method is a frame: it runs until it awaits a callback or a timer, *)
(* and a frame that can run does so before the next event is handled.      *)
(* A command's round trip takes no time; sleeps and the page's own         *)
(* observation of a predicate do.                                          *)
(***************************************************************************)
WaitTimeoutMs == 30000
WaitPollMs == 120
MaxThinkMs == 1500
HoverDwellMs == 120
DragSteps == 6
DragStepMs == 16
DomReadyTimeoutMs == 10000
DomReadyPollMs == 100
FocusRecentMs == 2000
ObserverTickMs == 120
NoCall == 0

\* ---- messages: sequences of pieces, a selector contributing its pieces ----
NoMessage == <<>>
NotAttachedMessage == <<"Debugger is ", "not attached", " to the tab">>
RejectedMessage == <<"command rejected">>
ExceptionMessage == <<"exception in page">>
CannotAttachMessage == <<"Cannot attach to this target">>
AlreadyAttachedMessage == <<"Another debugger is already attached to the tab">>

\* a name that is the predicate's identifier
friendlyPredicateName_Identifier(pred) == pred

friendlyPredicateName(pred) ==
  CASE pred = "urlChanged" -> "navigation"
    [] pred = "domAdded" -> "content to appear"
    [] pred = "ariaLiveUpdated" -> "announcement"
    [] pred = "textChanged" -> "text update"
    [] pred = "layoutStable" -> "page to settle"
    [] OTHER -> pred

friendlyWaitTimeoutMessage(step, timeoutMs) ==
  <<"Timed out after ", ToString(timeoutMs \div 1000), "s waiting for ",
    friendlyPredicateName(step.predicate)>>
    \o (IF step.selector.selector # <<>>
        THEN <<" in container: ">> \o step.selector.selector ELSE <<>>)

formatStepError(step, base) ==
  LET sel == step.selector.selector IN
  IF step.kind = "action"
  THEN <<"Action ", step.name, " failed">>
         \o (IF sel # <<>> THEN <<" on ">> \o sel ELSE <<>>) \o <<": ">> \o base
  ELSE IF step.kind = "waitForPredicate"
  THEN <<"Wait for ", friendlyPredicateName(step.predicate), " failed">>
         \o (IF sel # <<>> THEN <<" in ">> \o sel ELSE <<>>) \o <<": ">> \o base
  ELSE base

\* ---- think time ----
Min2(a, b) == IF a <= b THEN a ELSE b
Max2(a, b) == IF a >= b THEN a ELSE b

\* no think time at all
sleepMs_None(ts, previousTs, scale) == 0

\* a think time without the cap
sleepMs_Uncapped(ts, previousTs, scale) ==
  (Max2(0, ts - previousTs) * scale[1]) \div scale[2]

\* Math.min(maxThinkMs, Math.floor(Math.max(0, ts - previousTs) * thinkScale))
sleepMs(ts, previousTs, scale) ==
  Min2(MaxThinkMs, (Max2(0, ts - previousTs) * scale[1]) \div scale[2])

\* ---- what a step does, as the operations it performs in order ----
\* k: cmd (sendCommand and await), poll (waitUntil), sleep, need (throw
\* unless the centers are known), rethrow (leave a finally block), setLast
NoOp ==
  [k |-> "", method |-> "", arg |-> "", role |-> "", onErr |-> "", skip |-> 0,
   slot |-> "", slots |-> {}, ms |-> 0, timeout |-> 0, wrap |-> "",
   msg |-> NoMessage, clickCount |-> 0]

Cmd(method, arg, role, onErr, wrap) ==
  [NoOp EXCEPT !.k = "cmd", !.method = method, !.arg = arg, !.role = role,
               !.onErr = onErr, !.wrap = wrap]

sendCommandOp(method, arg) == Cmd(method, arg, "plain", "throw", "raw")

sleepOp(ms) == [NoOp EXCEPT !.k = "sleep", !.ms = ms]

Need(slots, msg) == [NoOp EXCEPT !.k = "need", !.slots = slots, !.msg = <<msg>>]

Rethrow == [NoOp EXCEPT !.k = "rethrow"]

SetLast == [NoOp EXCEPT !.k = "setLast"]

\* eval in a waitUntil loop
waitUntil(arg, timeoutMs, intervalMs, wrap) ==
  [NoOp EXCEPT !.k = "poll", !.method = "Runtime.evaluate", !.arg = arg,
               !.role = "poll", !.onErr = "throw", !.timeout = timeoutMs,
               !.ms = intervalMs, !.wrap = wrap]

\* callFunctionOn: a handle to the document, the call, the release of the
\* handle in the finally block, and the call's error leaving the block
callFunctionOn(role, slot, onDocErr, onCallErr, wrap) ==
  <<[Cmd("Runtime.evaluate", "document", "doc", onDocErr, wrap) EXCEPT !.skip = 3],
    [Cmd("Runtime.callFunctionOn", role, role, onCallErr, wrap) EXCEPT !.slot = slot],
    Cmd("Runtime.releaseObject", "", "plain", "ignore", "raw"),
    Rethrow>>

isAriaPseudo(raw) ==
  /\ \E i \in 1..Len(raw) : raw[i] = "role="
  /\ \E i \in 1..Len(raw) : raw[i] \in {" name=", " name~="}

resolveAriaPseudoCenter(slot) == callFunctionOn("center", slot, "skip", "ignore", "raw")

\* the query runs unless the aria lookup has found the center
resolveElementViewportCenter(selector, slot) ==
  (IF isAriaPseudo(selector.selector) THEN resolveAriaPseudoCenter(slot) ELSE <<>>)
    \o <<[Cmd("Runtime.evaluate", IF selector.selector = <<>> THEN "empty" ELSE "query",
              "center", "ignore", "raw") EXCEPT !.slot = slot, !.slots = {slot}]>>

mouseEvent(type) == sendCommandOp("Input.dispatchMouseEvent", type)

\* a press or release of the left button, with its clickCount
mouseButton(type, clickCount) == [mouseEvent(type) EXCEPT !.clickCount = clickCount]

\* for (let i = 0; i < clicks; i += 1): pressed, released with clickCount i + 1
RECURSIVE pressRelease(_)
pressRelease(clicks) ==
  IF clicks = 0 THEN <<>>
  ELSE pressRelease(clicks - 1)
         \o <<mouseButton("mousePressed", clicks), mouseButton("mouseReleased", clicks)>>

\* the buttons are pressed where the pointer happens to be
mouseClick_NoMove(clicks) == pressRelease(clicks)

mouseClick(clicks) == <<mouseEvent("mouseMoved")>> \o pressRelease(clicks)

waitForDomReady == <<waitUntil("document.readyState", DomReadyTimeoutMs, DomReadyPollMs, "raw")>>

RECURSIVE dragMoves(_)
dragMoves(n) ==
  IF n = 0 THEN <<>>
  ELSE dragMoves(n - 1) \o <<mouseEvent("mouseMoved"), sleepOp(DragStepMs)>>

shouldFocus(step, last, t) ==
  ~ (/\ last.sel # <<>> /\ last.sel = step.selector.selector
     /\ t - last.ts < FocusRecentMs
     /\ last.name \in {"type", "click"})

\* the text is inserted whether or not the step is redacted
insertText_Redacted(step) ==
  IF step.text # "" THEN <<sendCommandOp("Input.insertText", step.text)>> ELSE <<>>

\* if (!step.redacted && typeof action.text === "string" && action.text.length > 0)
insertText(step) ==
  IF ~step.redacted /\ step.text # ""
  THEN <<sendCommandOp("Input.insertText", step.text)>> ELSE <<>>

applyAction(step, last, t) ==
  LET center == resolveElementViewportCenter(step.selector, "start")
      toCenter == IF step.toSelector.selector # <<>>
                  THEN resolveElementViewportCenter(step.toSelector, "end") ELSE <<>>
      nm == step.name
  IN  CASE nm = "navigate" ->
             <<sendCommandOp("Page.navigate", step.url)>> \o waitForDomReady \o <<SetLast>>
        [] nm \in {"click", "dblclick"} ->
             center \o <<Need({"start"}, "Element not found for click")>>
               \o mouseClick(IF nm = "dblclick" THEN 2 ELSE 1) \o <<SetLast>>
        [] nm = "hover" ->
             center \o <<Need({"start"}, "Element not found for hover"),
                         mouseEvent("mouseMoved"), sleepOp(HoverDwellMs), SetLast>>
        [] nm = "type" ->
             center \o <<Need({"start"}, "Element not found for type")>>
               \o (IF shouldFocus(step, last, t) THEN mouseClick(1) ELSE <<>>)
               \o insertText(step)
               \o <<SetLast>>
        [] nm = "press" ->
             <<sendCommandOp("Input.dispatchKeyEvent", "keyDown"),
               sendCommandOp("Input.dispatchKeyEvent", "keyUp"), SetLast>>
        [] nm = "scroll" ->
             <<sendCommandOp("Runtime.evaluate", "window.scrollBy"), SetLast>>
        [] nm = "drag" ->
             center \o toCenter
               \o <<Need({"start", "end"}, "Drag endpoints not found"),
                    mouseEvent("mouseMoved"), mouseButton("mousePressed", 1)>>
               \o dragMoves(DragSteps) \o <<mouseButton("mouseReleased", 1), SetLast>>
        [] nm = "highlight" ->
             toCenter \o center
               \o <<Need({"start", "end"}, "Highlight endpoints not found"),
                    mouseEvent("mouseMoved"), mouseButton("mousePressed", 1),
                    mouseEvent("mouseMoved"), mouseButton("mouseReleased", 1), SetLast>>
        [] OTHER -> <<>>

isContentEditableContainer == callFunctionOn("editable", "", "skip", "ignore", "raw")

waitForDomAddedObserver == callFunctionOn("domObserver", "", "throw", "defer", "friendly")

waitForTextChangeObserver == callFunctionOn("observer", "", "throw", "defer", "raw")

waitForLayoutStableObserver == callFunctionOn("observer", "", "throw", "defer", "raw")

waitPredicate(step, last) ==
  LET pred == step.predicate
      containerSel == step.selector.selector
  IN  CASE pred = "urlChanged" ->
             <<Cmd("Runtime.evaluate", "location.href", "value", "throw", "raw"),
               waitUntil("location.href", WaitTimeoutMs, WaitPollMs, "friendly")>>
        [] pred = "domAdded" -> isContentEditableContainer \o waitForDomAddedObserver
        [] pred = "textChanged" ->
             IF last.name = "type" /\ containerSel # <<>> /\ containerSel = last.sel
             THEN <<>> ELSE waitForTextChangeObserver
        [] pred = "ariaLiveUpdated" ->
             <<waitUntil("aria-live", WaitTimeoutMs, WaitPollMs, "friendly")>>
        [] pred = "layoutStable" -> waitForLayoutStableObserver
        [] OTHER -> <<>>

\* the try block of play()'s loop
tryStep(step, last, t) ==
  IF step.kind = "action" THEN applyAction(step, last, t)
  ELSE IF step.kind = "waitForPredicate" THEN waitPredicate(step, last)
  ELSE <<>>

\* a catch block that rethrows every error
rethrows_Every(step) == TRUE

\* play()'s catch block rethrows the errors of these steps
rethrows(step) == step.kind # "action"

\* ---- frames of the async methods ----
NoAttach == [pc |-> "idle", caller |-> "", pending |-> {}, err |-> NoMessage]

NoPlay ==
  [pc |-> "idle", idx |-> 1, ops |-> <<>>, call |-> NoCall, wake |-> NoTimer,
   previousTs |-> NoTimer, res |-> "", found |-> {}, pend |-> NoMessage,
   loopStart |-> NoTimer, polls |-> 0, err |-> NoMessage]

NoDetach == [pc |-> "idle"]

Callers == {"stop", "popup"}

NoLastAction == [name |-> "", sel |-> <<>>, ts |-> 0]

NoMark ==
  [attempted |-> FALSE, outcome |-> "none", startAt |-> NoTimer,
   endAt |-> NoTimer, timedOut |-> FALSE, think |-> <<>>,
   liveAtStart |-> <<>>, liveAtEnd |-> <<>>]

\* what no action of the replayer's world changes
elsewhere ==
  <<href, title, text, detached, pageEvents, recorderVars, trace, meta, thinkScale,
    settingsVars, overlapVars, contentVars, selectorVars>>

\* ---- chrome.debugger ----
TransportCall(api, method, arg, role, owner, step, n) ==
  [id |-> nextCall + n, api |-> api, method |-> method, arg |-> arg,
   role |-> role, owner |-> owner, step |-> step, at |-> now, live |-> session,
   clickCount |-> 0]

LogEntry(c) ==
  [step |-> c.step, owner |-> c.owner, method |-> c.method, arg |-> c.arg,
   clickCount |-> c.clickCount, at |-> now, attached |-> isAttached, external |-> externalSeen]

\* a periodic check that gives up one period late
FinalPoll_Late(timeoutMs, intervalMs) == (timeoutMs \div intervalMs + 2) * intervalMs

\* first instant of a periodic check at which more than timeoutMs has passed
FinalPoll(timeoutMs, intervalMs) == (timeoutMs \div intervalMs + 1) * intervalMs

\* a callback that never reports a failure
failed_Never(r) == FALSE

failed(r) == r \in {"error", "exception"}

\* the element the container selector resolves to in the page, else the body
buildContainerResolveExpr(container, txt) ==
  IF \E e \in Elements : buildSelector(e, txt) = container
  THEN CHOOSE e \in Elements : buildSelector(e, txt) = container
  ELSE "body"

\* some live region below the container has text
buildAriaLiveNonEmptyExpr(container, txt) ==
  \E n \in AriaLive :
    /\ n # buildContainerResolveExpr(container, txt)
    /\ InSubtree(n, buildContainerResolveExpr(container, txt))
    /\ TextContent(n, txt) # <<>>

\* results the callback of command c can deliver now: a command on a lost
\* session fails; the functions sent for roles editable and domObserver
\* hold a TypeScript cast and do not compile in the page
Results(c) ==
  IF ~session THEN {"error"}
  ELSE (CASE c.role \in {"plain", "doc", "value"} -> {"ok"}
          [] c.role = "center" ->
               IF c.arg = "empty" THEN {"null"} ELSE {"found", "null"}
          [] c.role = "poll" ->
               IF c.arg = "aria-live"
               THEN {IF buildAriaLiveNonEmptyExpr(trace[c.step].selector, text)
                     THEN "true" ELSE "false"}
               ELSE {"true", "false"}
          [] c.role = "observer" ->
               {"true"} \cup (IF now - c.at > WaitTimeoutMs THEN {"false"} ELSE {})
          [] c.role \in {"editable", "domObserver"} -> {"exception"}
          [] OTHER -> {"ok"})
       \cup (IF budget.faults > 0 /\ c.role \notin {"editable", "domObserver"}
             THEN {"error"} ELSE {})

\* a failure of a command on an attached session is one of the faults of the run
Spend(r) ==
  IF session /\ r = "error" THEN [budget EXCEPT !.faults = @ - 1] ELSE budget

ErrorMessage(r) ==
  IF r = "exception" THEN ExceptionMessage
  ELSE IF session THEN RejectedMessage ELSE NotAttachedMessage

\* /No target with given id|not attached/i
DetachTolerates(msg) ==
  \E i \in 1..Len(msg) : msg[i] \in {"No target with given id", "not attached"}

\* the page is still observing for command c
PendingInPage(c) ==
  /\ c.api = "sendCommand" /\ c.role = "observer" /\ session
  /\ now < c.at + FinalPoll(WaitTimeoutMs, ObserverTickMs)

\* ---- scheduling: a frame that can run ----
Runnable ==
  \/ att.pc = "begin"
  \/ play.pc \in {"start", "loop", "step", "ops", "resumed", "catch"}
  \/ play.pc = "attach" /\ att.caller = "play" /\ att.pc \in {"done", "failed"}
  \/ \E c \in Callers : dets[c].pc = "run"
  \/ popup.pc = "attach" /\ att.caller = "popup" /\ att.pc \in {"done", "failed"}
  \/ popup.pc = "play" /\ play.pc \in {"done", "rejected"}
  \/ popup.pc \in {"detach", "cleanup"} /\ dets["popup"].pc \in {"done", "failed"}
  \/ popup.pc = "catch"
  \/ stopper.pc = "detach" /\ dets["stop"].pc \in {"done", "failed"}
  \/ att.caller = "direct" /\ att.pc \in {"done", "failed"}

Settled == ~Runnable

\* ---- the listeners on chrome.debugger.onEvent and onDetach ----
NoHandlers == [bound |-> FALSE, registered |-> 0]

\* a new pair of closures is registered and becomes the bound one
installEventHandlers(h) == [bound |-> TRUE, registered |-> h.registered + 1]

\* the bound pair, if any, is removed
removeEventHandlers(h) ==
  IF h.bound THEN [bound |-> FALSE, registered |-> h.registered - 1] ELSE h

\* ---- attach() ----
\* an attach() that does not look at isAttached
AttachBegin_Unguarded ==
  /\ att.pc = "begin"
  /\ att' = [att EXCEPT !.pc = "attachDebugger"]
  /\ calls' = calls \cup {TransportCall("attach", "", "", "", "attach", 0, 1)}
  /\ nextCall' = nextCall + 1
  /\ UNCHANGED <<elsewhere, now, replayerVars, session, backgroundVars, play, dets,
                 playGhostVars>>

AttachBegin ==
  /\ att.pc = "begin"
  /\ IF isAttached
     THEN /\ att' = [att EXCEPT !.pc = "done"]
          /\ UNCHANGED <<calls, nextCall>>
     ELSE /\ att' = [att EXCEPT !.pc = "attachDebugger"]
          /\ calls' = calls \cup
               {TransportCall("attach", "", "", "", "attach", 0, 1)}
          /\ nextCall' = nextCall + 1
  /\ UNCHANGED <<elsewhere, now, replayerVars, session, backgroundVars, play, dets,
                 playGhostVars>>

EnableMethods == <<"Page.enable", "DOM.enable", "Runtime.enable", "Network.enable">>

enableDomains ==
  [n \in 1..Len(EnableMethods) |->
     TransportCall("sendCommand", EnableMethods[n], "", "plain", "attach", 0, n)]

\* the callback of chrome.debugger.attach, and enableDomains() after it
AttachDebuggerReturns ==
  /\ Settled
  /\ \E c \in calls :
       /\ c.api = "attach"
       /\ \E ok \in (IF session THEN {FALSE}
                     ELSE {TRUE} \cup (IF budget.faults > 0 THEN {FALSE} ELSE {})) :
            IF ok
            THEN /\ session' = TRUE
                 /\ calls' = (calls \ {c}) \cup
                      {enableDomains[n] : n \in 1..Len(EnableMethods)}
                 /\ nextCall' = nextCall + Len(EnableMethods)
                 /\ log' = log \o [n \in 1..Len(EnableMethods) |->
                                     LogEntry(enableDomains[n])]
                 /\ att' = [att EXCEPT !.pc = "enableDomains",
                              !.pending = {enableDomains[n].id : n \in 1..Len(EnableMethods)}]
                 /\ UNCHANGED budget
            ELSE /\ att' = [att EXCEPT !.pc = "failed",
                              !.err = IF session THEN AlreadyAttachedMessage
                                      ELSE CannotAttachMessage]
                 /\ calls' = calls \ {c}
                 /\ budget' = IF session THEN budget
                              ELSE [budget EXCEPT !.faults = @ - 1]
                 /\ UNCHANGED <<session, nextCall, log>>
  /\ UNCHANGED <<elsewhere, now, replayerVars, backgroundVars, play, dets,
                 marks, externalSeen, detachedAt>>

\* the callback of one of enableDomains()'s commands, in the order of the
\* calls; the last one lets attach() install the event handlers and set
\* isAttached
EnableDomainsReturns ==
  /\ Settled
  /\ \E c \in calls :
       /\ c.api = "sendCommand" /\ c.owner = "attach"
       /\ \A d \in calls : d.owner = "attach" => c.id <= d.id
       /\ \E r \in Results(c) :
            /\ calls' = calls \ {c}
            /\ budget' = Spend(r)
            /\ IF att.pc = "enableDomains" /\ c.id \in att.pending
               THEN IF failed(r)
                    THEN /\ att' = [att EXCEPT !.pc = "failed", !.pending = {},
                                                !.err = ErrorMessage(r)]
                         /\ UNCHANGED <<isAttached, handlers, externalSeen>>
                    ELSE IF att.pending = {c.id}
                    THEN /\ att' = [att EXCEPT !.pc = "done", !.pending = {}]
                         /\ handlers' = installEventHandlers(handlers)
                         /\ isAttached' = TRUE
                         /\ externalSeen' = FALSE
                    ELSE /\ att' = [att EXCEPT !.pending = @ \ {c.id}]
                         /\ UNCHANGED <<isAttached, handlers, externalSeen>>
               ELSE UNCHANGED <<att, isAttached, handlers, externalSeen>>
  /\ UNCHANGED <<elsewhere, now, lastAction, session, nextCall, backgroundVars,
                 play, dets, log, marks, detachedAt>>

\* ---- detach() ----
DetachBegin ==
  /\ \E who \in Callers :
       /\ dets[who].pc = "run"
       /\ IF ~isAttached
          THEN /\ dets' = [dets EXCEPT ![who].pc = "done"]
               /\ UNCHANGED <<handlers, calls, nextCall, session, detachedAt>>
          ELSE /\ handlers' = removeEventHandlers(handlers)
               /\ calls' = calls \cup
                    {TransportCall("detach", "", "", "", who, 0, 1)}
               /\ nextCall' = nextCall + 1
               /\ session' = FALSE
               /\ detachedAt' = IF session THEN now ELSE detachedAt
               /\ dets' = [dets EXCEPT ![who].pc = "detachDebugger"]
  /\ UNCHANGED <<elsewhere, now, isAttached, lastAction, backgroundVars, att, play,
                 budget, log, marks, externalSeen>>

\* the callback of chrome.debugger.detach
DetachDebuggerReturns ==
  /\ Settled
  /\ \E c \in calls :
       /\ c.api = "detach"
       /\ calls' = calls \ {c}
       /\ LET msg == IF c.live THEN NoMessage ELSE NotAttachedMessage IN
          IF msg = NoMessage \/ DetachTolerates(msg)
          THEN /\ isAttached' = FALSE
               /\ dets' = [dets EXCEPT ![c.owner].pc = "done"]
          ELSE /\ dets' = [dets EXCEPT ![c.owner].pc = "failed"]
               /\ UNCHANGED isAttached
  /\ UNCHANGED <<elsewhere, now, handlers, lastAction, session, nextCall,
                 backgroundVars, att, play, playGhostVars>>

\* ---- the session ends out of band, and chrome.debugger.onDetach ----
SessionLost ==
  /\ Settled
  /\ session
  /\ budget.externals > 0
  /\ budget' = [budget EXCEPT !.externals = @ - 1]
  /\ session' = FALSE
  /\ detachedAt' = now
  /\ calls' = calls \cup {TransportCall("onDetach", "", "", "", "", 0, 1)}
  /\ nextCall' = nextCall + 1
  /\ UNCHANGED <<elsewhere, now, replayerVars, backgroundVars, frameVars, log,
                 marks, externalSeen>>

\* the boundOnDetach closures that are still registered
OnDetach ==
  /\ Settled
  /\ \E c \in calls :
       /\ c.api = "onDetach"
       /\ calls' = calls \ {c}
  /\ IF handlers.registered > 0
     THEN isAttached' = FALSE /\ externalSeen' = TRUE
     ELSE UNCHANGED <<isAttached, externalSeen>>
  /\ UNCHANGED <<elsewhere, now, handlers, lastAction, session, nextCall,
                 backgroundVars, frameVars, budget, log, marks, detachedAt>>

\* ---- play() ----
\* if (!this.isAttached) await this.attach()
PlayStart ==
  /\ play.pc = "start"
  /\ IF ~isAttached
     THEN /\ att' = [NoAttach EXCEPT !.pc = "begin", !.caller = "play"]
          /\ play' = [play EXCEPT !.pc = "attach"]
     ELSE /\ play' = [play EXCEPT !.pc = "loop"]
          /\ UNCHANGED att
  /\ UNCHANGED <<elsewhere, now, replayerVars, debuggerVars, backgroundVars, dets,
                 playGhostVars>>

\* attach() has settled
PlayAttached ==
  /\ play.pc = "attach" /\ att.caller = "play" /\ att.pc \in {"done", "failed"}
  /\ play' = IF att.pc = "done" THEN [play EXCEPT !.pc = "loop"]
             ELSE [play EXCEPT !.pc = "rejected", !.idx = 0, !.err = att.err]
  /\ att' = NoAttach
  /\ UNCHANGED <<elsewhere, now, replayerVars, debuggerVars, backgroundVars, dets,
                 playGhostVars>>

\* the head of the for loop: the think time before step idx
PlayLoop ==
  /\ play.pc = "loop"
  /\ IF play.idx > Len(trace)
     THEN /\ play' = [play EXCEPT !.pc = "done"]
          /\ UNCHANGED marks
     ELSE LET ms == IF play.previousTs = NoTimer THEN 0
                    ELSE sleepMs(trace[play.idx].timestamp, play.previousTs, thinkScale)
          IN  IF ms > 0
              THEN /\ play' = [play EXCEPT !.pc = "think", !.wake = now + ms]
                   /\ marks' = [marks EXCEPT ![play.idx].think = Append(@, ms)]
              ELSE /\ play' = [play EXCEPT !.pc = "step"]
                   /\ UNCHANGED marks
  /\ UNCHANGED <<elsewhere, now, replayerVars, debuggerVars, backgroundVars, att, dets,
                 budget, log, externalSeen, detachedAt>>

\* the try block is entered: applyAction or waitPredicate is called
PlayStep ==
  /\ play.pc = "step"
  /\ play' = [play EXCEPT !.pc = "ops",
                          !.ops = tryStep(trace[play.idx], lastAction, now),
                          !.found = {}, !.pend = NoMessage,
                          !.loopStart = NoTimer, !.polls = 0]
  /\ marks' = [marks EXCEPT ![play.idx].attempted = TRUE, ![play.idx].startAt = now,
                            ![play.idx].liveAtStart = LiveText(text)]
  /\ UNCHANGED <<elsewhere, now, replayerVars, debuggerVars, backgroundVars, att, dets,
                 budget, log, externalSeen, detachedAt>>

\* the next operation of the step, up to its await
PlayOp ==
  /\ play.pc = "ops"
  /\ LET ended == play.ops = <<>>
         o == IF ended THEN NoOp ELSE Head(play.ops)
         rest == IF ended THEN <<>> ELSE Tail(play.ops)
         known == o.slots # {} /\ o.slots \subseteq play.found
         issuing == o.k \in {"cmd", "poll"} /\ ~known
         c == [TransportCall("sendCommand", o.method, o.arg, o.role, "play", play.idx, 1)
                 EXCEPT !.clickCount = o.clickCount]
     IN  /\ calls' = IF issuing THEN calls \cup {c} ELSE calls
         /\ nextCall' = IF issuing THEN nextCall + 1 ELSE nextCall
         /\ log' = IF issuing THEN Append(log, LogEntry(c)) ELSE log
         /\ lastAction' = IF o.k = "setLast"
                          THEN [name |-> trace[play.idx].name,
                                sel |-> trace[play.idx].selector.selector,
                                ts |-> now]
                          ELSE lastAction
         /\ marks' = IF ended
                     THEN [marks EXCEPT ![play.idx].outcome = "ok",
                                        ![play.idx].endAt = now,
                                        ![play.idx].liveAtEnd = LiveText(text)]
                     ELSE marks
         /\ play' =
              IF ended
              THEN [play EXCEPT !.pc = "loop", !.idx = @ + 1,
                                !.previousTs = trace[play.idx].timestamp]
              ELSE IF issuing
              THEN [play EXCEPT !.pc = "cmd", !.call = c.id,
                                !.loopStart = IF o.k = "poll" /\ @ = NoTimer
                                              THEN now ELSE @]
              ELSE IF o.k = "cmd" THEN [play EXCEPT !.ops = rest]
              ELSE IF o.k = "sleep"
              THEN [play EXCEPT !.pc = "sleep", !.wake = now + o.ms, !.ops = rest]
              ELSE IF o.k = "need" /\ ~(o.slots \subseteq play.found)
              THEN [play EXCEPT !.pc = "catch", !.err = o.msg]
              ELSE IF o.k = "rethrow" /\ play.pend # NoMessage
              THEN [play EXCEPT !.pc = "catch", !.err = play.pend]
              ELSE [play EXCEPT !.ops = rest]
  /\ UNCHANGED <<elsewhere, now, isAttached, handlers, session, backgroundVars, att,
                 dets, budget, externalSeen, detachedAt>>

\* the callback of the command play() awaits
CommandReturns ==
  /\ Settled
  /\ \E c \in calls :
       /\ c.api = "sendCommand" /\ c.owner = "play"
       /\ \E r \in Results(c) :
            /\ calls' = calls \ {c}
            /\ budget' = Spend(r)
            /\ play' = IF play.pc = "cmd" /\ play.call = c.id
                       THEN [play EXCEPT !.pc = "resumed", !.res = r, !.call = NoCall]
                       ELSE play
  /\ UNCHANGED <<elsewhere, now, replayerVars, session, nextCall, backgroundVars,
                 att, dets, log, marks, externalSeen, detachedAt>>

\* play() continues with the result of the command
PlayResumed ==
  /\ play.pc = "resumed"
  /\ LET o == Head(play.ops)
         rest == Tail(play.ops)
         r == play.res
         step == trace[play.idx]
         friendly == friendlyWaitTimeoutMessage(step, WaitTimeoutMs)
         base == IF o.wrap = "friendly" THEN friendly ELSE ErrorMessage(r)
         expired == now - play.loopStart > o.timeout
         unseen == /\ ~failed(r) /\ r = "false"
                   /\ o.k = "poll" => expired
     IN  /\ marks' = IF unseen THEN [marks EXCEPT ![play.idx].timedOut = TRUE]
                     ELSE marks
         /\ play' =
              IF o.k = "poll"
              THEN IF failed(r) THEN [play EXCEPT !.pc = "catch", !.err = base]
                   ELSE IF r = "true"
                   THEN [play EXCEPT !.pc = "ops", !.ops = rest,
                                     !.loopStart = NoTimer, !.polls = 0]
                   ELSE IF expired
                   THEN [play EXCEPT !.pc = "catch",
                           !.err = IF o.wrap = "friendly" THEN friendly
                                   ELSE <<"waitUntil: timeout">>]
                   ELSE [play EXCEPT !.pc = "sleep", !.wake = now + o.ms,
                                     !.polls = @ + 1]
              ELSE IF failed(r)
              THEN CASE o.onErr = "throw" -> [play EXCEPT !.pc = "catch", !.err = base]
                     [] o.onErr = "skip" ->
                          [play EXCEPT !.pc = "ops",
                                       !.ops = SubSeq(rest, o.skip + 1, Len(rest))]
                     [] o.onErr = "defer" ->
                          [play EXCEPT !.pc = "ops", !.ops = rest, !.pend = base]
                     [] OTHER -> [play EXCEPT !.pc = "ops", !.ops = rest]
              ELSE IF o.role = "center" /\ r = "found"
              THEN [play EXCEPT !.pc = "ops", !.ops = rest,
                                !.found = @ \cup {o.slot}]
              ELSE IF o.role \in {"observer", "domObserver"} /\ r = "false"
              THEN [play EXCEPT !.pc = "ops", !.ops = rest,
                      !.pend = friendly \o
                               (IF step.predicate = "textChanged"
                                THEN <<". Current text: ">> ELSE <<>>)]
              ELSE IF o.role = "editable" /\ r = "true"
              THEN [play EXCEPT !.pc = "ops", !.ops = SubSeq(rest, 1, 2)]
              ELSE [play EXCEPT !.pc = "ops", !.ops = rest]
  /\ UNCHANGED <<elsewhere, now, replayerVars, debuggerVars, backgroundVars, att, dets,
                 budget, log, externalSeen, detachedAt>>

\* the catch block of the loop
PlayCatch ==
  /\ play.pc = "catch"
  /\ LET step == trace[play.idx]
         message == formatStepError(step, play.err)
     IN  /\ marks' = [marks EXCEPT ![play.idx].outcome = "failed",
                                   ![play.idx].endAt = now]
         /\ play' = IF rethrows(step)
                    THEN [play EXCEPT !.pc = "rejected", !.err = message,
                                      !.ops = <<>>]
                    ELSE [play EXCEPT !.pc = "loop", !.idx = @ + 1,
                                      !.previousTs = step.timestamp,
                                      !.err = NoMessage, !.ops = <<>>]
  /\ UNCHANGED <<elsewhere, now, replayerVars, debuggerVars, backgroundVars, att, dets,
                 budget, log, externalSeen, detachedAt>>

\* the page announces something in an empty live region, between two polls
\* of a wait for an announcement
Announce ==
  /\ Settled
  /\ play.pc = "sleep"
  /\ trace[play.idx].kind = "waitForPredicate"
  /\ trace[play.idx].predicate = "ariaLiveUpdated"
  /\ \E n \in AriaLive :
       /\ text[n] = ""
       /\ text' = [text EXCEPT ![n] = "x"]
  /\ UNCHANGED <<now, href, title, detached, pageEvents, recorderVars, playVars,
                 settingsVars, overlapVars, contentVars, selectorVars>>

\* the timer of a sleep() fires
PlayWake ==
  /\ Settled
  /\ play.pc \in {"think", "sleep"}
  /\ play.wake = now
  /\ play' = [play EXCEPT !.pc = IF @ = "think" THEN "step" ELSE "ops",
                          !.wake = NoTimer]
  /\ UNCHANGED <<elsewhere, now, replayerVars, debuggerVars, backgroundVars, att, dets,
                 playGhostVars>>

\* ---- background: FRL_POPUP_PLAY and FRL_POPUP_STOP_PLAY ----
\* the request of a run: tabReplayers holds no entry for the tab yet
FRL_POPUP_PLAY ==
  /\ Settled
  /\ popup.pc = "idle"
  /\ ~entry
  /\ entry' = TRUE
  /\ att' = [NoAttach EXCEPT !.pc = "begin", !.caller = "popup"]
  /\ popup' = [popup EXCEPT !.pc = "attach"]
  /\ UNCHANGED <<elsewhere, now, replayerVars, debuggerVars, stopper, play, dets,
                 playGhostVars>>

\* await replayer.attach() has settled: play() is called, or the catch block runs
PopupAttached ==
  /\ popup.pc = "attach" /\ att.caller = "popup" /\ att.pc \in {"done", "failed"}
  /\ IF att.pc = "done"
     THEN /\ play' = [NoPlay EXCEPT !.pc = "start"]
          /\ popup' = [popup EXCEPT !.pc = "play"]
     ELSE /\ popup' = [popup EXCEPT !.pc = "catch", !.error = att.err]
          /\ UNCHANGED play
  /\ att' = NoAttach
  /\ UNCHANGED <<elsewhere, now, replayerVars, debuggerVars, entry, stopper, dets,
                 playGhostVars>>

\* await playing has settled
PopupPlayed ==
  /\ popup.pc = "play" /\ play.pc \in {"done", "rejected"}
  /\ IF play.pc = "done"
     THEN /\ dets' = [dets EXCEPT !["popup"].pc = "run"]
          /\ popup' = [popup EXCEPT !.pc = "detach"]
     ELSE /\ popup' = [popup EXCEPT !.pc = "catch", !.error = play.err]
          /\ UNCHANGED dets
  /\ UNCHANGED <<elsewhere, now, replayerVars, debuggerVars, entry, stopper, att, play,
                 playGhostVars>>

\* the catch block: best-effort detach of the entry of the tab, if any
PopupCatch ==
  /\ popup.pc = "catch"
  /\ IF entry
     THEN /\ dets' = [dets EXCEPT !["popup"].pc = "run"]
          /\ popup' = [popup EXCEPT !.pc = "cleanup"]
     ELSE /\ popup' = [popup EXCEPT !.pc = "responded", !.ok = FALSE]
          /\ UNCHANGED dets
  /\ UNCHANGED <<elsewhere, now, replayerVars, debuggerVars, entry, stopper, att, play,
                 playGhostVars>>

\* a detach() of the handler has settled
PopupDetached ==
  /\ popup.pc \in {"detach", "cleanup"} /\ dets["popup"].pc \in {"done", "failed"}
  /\ dets' = [dets EXCEPT !["popup"] = NoDetach]
  /\ IF popup.pc = "detach" /\ dets["popup"].pc = "failed"
     THEN /\ popup' = [popup EXCEPT !.pc = "catch", !.error = NotAttachedMessage]
          /\ UNCHANGED entry
     ELSE /\ entry' = FALSE
          /\ popup' = [popup EXCEPT !.pc = "responded", !.ok = (popup.pc = "detach")]
  /\ UNCHANGED <<elsewhere, now, replayerVars, debuggerVars, stopper, att, play,
                 playGhostVars>>

FRL_POPUP_STOP_PLAY ==
  /\ Settled
  /\ popup.pc # "none"
  /\ stopper.pc = "idle"
  /\ budget.stops > 0
  /\ budget' = [budget EXCEPT !.stops = @ - 1]
  /\ IF ~entry
     THEN /\ stopper' = [stopper EXCEPT !.pc = "responded"]
          /\ UNCHANGED dets
     ELSE /\ stopper' = [stopper EXCEPT !.pc = "detach", !.during = play.pc]
          /\ dets' = [dets EXCEPT !["stop"].pc = "run"]
  /\ UNCHANGED <<elsewhere, now, replayerVars, debuggerVars, entry, popup, att, play,
                 log, marks, externalSeen, detachedAt>>

\* try { await entry.replayer.detach() } catch {} has settled
StopDetached ==
  /\ stopper.pc = "detach" /\ dets["stop"].pc \in {"done", "failed"}
  /\ entry' = FALSE
  /\ stopper' = [stopper EXCEPT !.pc = "responded"]
  /\ UNCHANGED <<elsewhere, now, replayerVars, debuggerVars, popup, frameVars,
                 playGhostVars>>

\* ---- a caller that holds the replayer itself ----
CallPlay ==
  /\ Settled
  /\ popup.pc = "none"
  /\ play.pc = "idle"
  /\ play' = [NoPlay EXCEPT !.pc = "start"]
  /\ UNCHANGED <<elsewhere, now, replayerVars, debuggerVars, backgroundVars, att, dets,
                 playGhostVars>>

\* await replayer.attach(), and its continuation
CallAttach ==
  /\ Settled
  /\ popup.pc = "none"
  /\ att.pc = "idle" /\ play.pc \in {"idle", "done", "rejected"}
  /\ budget.attaches > 0
  /\ budget' = [budget EXCEPT !.attaches = @ - 1]
  /\ att' = [NoAttach EXCEPT !.pc = "begin", !.caller = "direct"]
  /\ UNCHANGED <<elsewhere, now, replayerVars, debuggerVars, backgroundVars, play, dets,
                 log, marks, externalSeen, detachedAt>>

CallerAttached ==
  /\ att.caller = "direct" /\ att.pc \in {"done", "failed"}
  /\ att' = NoAttach
  /\ UNCHANGED <<elsewhere, now, replayerVars, debuggerVars, backgroundVars, play, dets,
                 playGhostVars>>

CallDetach ==
  /\ Settled
  /\ popup.pc = "none"
  /\ dets["stop"].pc = "idle"
  /\ budget.stops > 0
  /\ budget' = [budget EXCEPT !.stops = @ - 1]
  /\ dets' = [dets EXCEPT !["stop"].pc = "run"]
  /\ stopper' = [stopper EXCEPT !.during = play.pc]
  /\ UNCHANGED <<elsewhere, now, replayerVars, debuggerVars, entry, popup, att, play,
                 log, marks, externalSeen, detachedAt>>

\* ---- time ----
\* play() sleeps between two polls of a waitUntil loop
InPollSleep == play.pc = "sleep" /\ play.ops # <<>> /\ Head(play.ops).k = "poll"

\* the next timer of play() that does something: once MaxPolls polls of a
\* loop have found the condition false, the polls before the last one of
\* the loop find it false too, as long as the session lasts
NextWake ==
  IF InPollSleep /\ session /\ play.polls >= MaxPolls
  THEN Max2(play.wake,
            play.loopStart + FinalPoll(Head(play.ops).timeout, Head(play.ops).ms))
  ELSE play.wake

PlayTimers ==
  (IF play.pc \in {"think", "sleep"} THEN {NextWake} ELSE {})
    \cup {c.at + FinalPoll(WaitTimeoutMs, ObserverTickMs) : c \in {d \in calls : PendingInPage(d)}}

\* time passes up to the next timer, once every callback that is due has run
PlayTick ==
  /\ Settled
  /\ \A c \in calls : PendingInPage(c)
  /\ PlayTimers # {}
  /\ Min(PlayTimers) > now
  /\ now' = Min(PlayTimers)
  /\ play' = IF play.pc \in {"think", "sleep"} /\ NextWake = now'
             THEN [play EXCEPT !.wake = now'] ELSE play
  /\ UNCHANGED <<href, title, text, detached, pageEvents, recorderVars, trace,
                 meta, thinkScale, replayerVars, debuggerVars, backgroundVars, att, dets,
                 playGhostVars, settingsVars, overlapVars, contentVars, selectorVars>>

(***************************************************************************)
(* Part III b.  Overlapping FRL_POPUP_PLAY requests for one tab            *)
(* (background.ts).  Request q constructs replayer q; a step of a trace is *)
(* one protocol command, which reaches the page when the tab has a session *)
(* at the time chrome.debugger handles it.                                 *)
(***************************************************************************)
Requests == {1, 2}

\* the kinds of the steps of the traces the requests carry
OverlapTraces == {<<"action", "action">>, <<"action", "waitForPredicate">>}

NoPopupPlay == [pc |-> "idle", target |-> 0, phase |-> "", response |-> "", trace |-> <<>>]

NewReplayer == [isAttached |-> FALSE, pc |-> "idle", idx |-> 1]

NoOverlap ==
  /\ popups = [q \in Requests |-> NoPopupPlay]
  /\ replayers = [q \in Requests |-> NewReplayer]
  /\ tabReplayers = 0
  /\ debuggee = FALSE
  /\ reached = <<>>

\* the state the handlers and replayers of the tab work on
World ==
  [popups |-> popups, replayers |-> replayers, tabReplayers |-> tabReplayers,
   debuggee |-> debuggee, reached |-> reached]

Becomes(w) ==
  /\ popups' = w.popups
  /\ replayers' = w.replayers
  /\ tabReplayers' = w.tabReplayers
  /\ debuggee' = w.debuggee
  /\ reached' = w.reached
  /\ UNCHANGED <<pageVars, recorderVars, playVars, settingsVars, selectorVars, contentVars>>

\* sendResponse
respond(w, q, response) ==
  [w EXCEPT !.popups[q].pc = "responded", !.popups[q].response = response]

\* new CDPReplayer, tabReplayers.set, and attach() up to its first await
construct(w, q) ==
  [w EXCEPT !.replayers[q] = NewReplayer, !.tabReplayers = q, !.popups[q].pc = "attach"]

\* what follows an awaited detach() in the handler of request q
afterDetach(w, q, phase) ==
  CASE phase = "dispose" -> construct([w EXCEPT !.tabReplayers = 0], q)
    [] phase = "final" -> respond([w EXCEPT !.tabReplayers = 0], q, "ok")
    [] OTHER -> respond([w EXCEPT !.tabReplayers = 0], q, "error")

\* the handler of request q awaits detach() of replayer m: a replayer that
\* is not attached returns at once, else chrome.debugger.detach is called
detachCall(w, q, m, phase) ==
  IF ~w.replayers[m].isAttached THEN afterDetach(w, q, phase)
  ELSE [w EXCEPT !.popups[q].pc = "detach", !.popups[q].target = m,
                 !.popups[q].phase = phase]

\* the catch block: detach and delete whatever tabReplayers holds for the tab
catchBlock(w, q) ==
  IF w.tabReplayers # 0 THEN detachCall(w, q, w.tabReplayers, "catch")
  ELSE respond(w, q, "error")

\* replayer.play() has settled in the handler that awaits it
played(w, q, ok) ==
  IF ok THEN detachCall(w, q, q, "final") ELSE catchBlock(w, q)

\* the message arrives: an existing replayer of the tab is detached and
\* disposed first
PopupPlayRequest(q) ==
  /\ popups[q].pc = "idle"
  /\ q = 1 \/ popups[1].pc # "idle"
  /\ \E t \in OverlapTraces :
       Becomes(IF tabReplayers # 0
               THEN detachCall([World EXCEPT !.popups[q].trace = t], q,
                               tabReplayers, "dispose")
               ELSE construct([World EXCEPT !.popups[q].trace = t], q))

\* the callback of chrome.debugger.detach: "not attached" counts as success
ReplayerDetached(q) ==
  /\ popups[q].pc = "detach"
  /\ Becomes(afterDetach([World EXCEPT !.debuggee = FALSE,
                                       !.replayers[popups[q].target].isAttached = FALSE],
                         q, popups[q].phase))

\* the callback of chrome.debugger.attach, in the order of the calls: a tab
\* that has a session already rejects the call; else the four enable
\* commands are sent
ReplayerAttached(q) ==
  /\ popups[q].pc = "attach"
  /\ \A r \in Requests : r < q => popups[r].pc # "attach"
  /\ Becomes(IF debuggee THEN catchBlock(World, q)
             ELSE [World EXCEPT !.debuggee = TRUE, !.popups[q].pc = "enable"])

\* Promise.all of the enable commands has settled: handlers installed,
\* isAttached set, play() runs up to its first command, the entry is set again
DomainsEnabled(q) ==
  /\ popups[q].pc = "enable"
  /\ Becomes(IF ~debuggee THEN catchBlock(World, q)
             ELSE [World EXCEPT !.replayers[q] = [isAttached |-> TRUE, pc |-> "run", idx |-> 1],
                                !.tabReplayers = q,
                                !.popups[q].pc = "play"])

\* the command of the step in progress returns to play() of replayer q: an
\* action that failed is logged, a wait that failed rejects play()
StepCommandReturns(q) ==
  LET i == replayers[q].idx
      kind == popups[q].trace[i]
      w == IF debuggee
           THEN [World EXCEPT !.reached = Append(@, [replayer |-> q, step |-> i])]
           ELSE World
  IN  /\ replayers[q].pc = "run"
      /\ Becomes(IF ~debuggee /\ kind = "waitForPredicate"
                 THEN played([w EXCEPT !.replayers[q].pc = "rejected"], q, FALSE)
                 ELSE IF i = Len(popups[q].trace)
                 THEN played([w EXCEPT !.replayers[q].pc = "done"], q, TRUE)
                 ELSE [w EXCEPT !.replayers[q].idx = i + 1])

(***************************************************************************)
(* Part IV.  The allow list (settings.ts).  A string is the sequence of    *)
(* its pieces: single characters, and the scheme of a URL as one piece.    *)
(***************************************************************************)
Schemes == {"http://", "https://"}

toLowerCase(d) == [k \in 1..Len(d) |-> IF d[k] = "A" THEN "a" ELSE d[k]]

RECURSIVE trimStart(_)
trimStart(d) == IF d # <<>> /\ Head(d) = " " THEN trimStart(Tail(d)) ELSE d

RECURSIVE trimEnd(_)
trimEnd(d) ==
  IF d # <<>> /\ d[Len(d)] = " " THEN trimEnd(SubSeq(d, 1, Len(d) - 1)) ELSE d

trim(d) == trimEnd(trimStart(d))

endsWith(s, t) == Len(t) <= Len(s) /\ SubSeq(s, Len(s) - Len(t) + 1, Len(s)) = t

RECURSIVE skipSlashes(_)
skipSlashes(d) == IF d # <<>> /\ Head(d) = "/" THEN skipSlashes(Tail(d)) ELSE d

RECURSIVE upToSlash(_)
upToSlash(d) ==
  IF d = <<>> \/ Head(d) = "/" THEN <<>> ELSE <<Head(d)>> \o upToSlash(Tail(d))

\* new URL(d).hostname of a string that starts with a scheme: the slashes
\* after the scheme are skipped and the host ends at the next slash; <<>>
\* when the parser throws (no host, or a space in the host)
URLhostname(d) ==
  LET host == upToSlash(skipSlashes(Tail(d)))
  IN  IF \E k \in 1..Len(host) : host[k] = " " THEN <<>> ELSE host

normalizeDomain(domain) ==
  LET lowered == toLowerCase(trim(domain))
      \* if (/^https?:\/\//i.test(d)) d = new URL(d).hostname, in try / catch {}
      reduced == IF lowered # <<>> /\ Head(lowered) \in Schemes
                    /\ URLhostname(lowered) # <<>>
                 THEN URLhostname(lowered) ELSE lowered
      \* d.replace(/^\*?\.?/, "")
      unstarred == IF reduced # <<>> /\ Head(reduced) = "*" THEN Tail(reduced)
                   ELSE reduced
      undotted == IF unstarred # <<>> /\ Head(unstarred) = "." THEN Tail(unstarred)
                  ELSE unstarred
  \* d.replace(/\.$/, "")
  IN  IF undotted # <<>> /\ undotted[Len(undotted)] = "."
      THEN SubSeq(undotted, 1, Len(undotted) - 1) ELSE undotted

\* arr.indexOf(d) for a d that occurs in arr
indexOf(arr, d) == CHOOSE k \in 1..Len(arr) : arr[k] = d /\ \A j \in 1..(k - 1) : arr[j] # d

\* .filter((d, i, arr) => !!d && arr.indexOf(d) === i), from index k on
RECURSIVE filterFrom(_, _)
filterFrom(arr, k) ==
  IF k > Len(arr) THEN <<>>
  ELSE (IF arr[k] # <<>> /\ indexOf(arr, arr[k]) = k THEN <<arr[k]>> ELSE <<>>)
         \o filterFrom(arr, k + 1)

normalizeDomains(domains) ==
  filterFrom([k \in 1..Len(domains) |-> normalizeDomain(domains[k])], 1)

\* the dot before the entry is not asked for
isDomainAllowed_AnySuffix(host, allowedDomains) ==
  LET h == normalizeDomain(host)
      list == normalizeDomains(allowedDomains)
  IN  \E k \in 1..Len(list) : h = list[k] \/ endsWith(h, list[k])

isDomainAllowed(host, allowedDomains) ==
  LET h == normalizeDomain(host)
      list == normalizeDomains(allowedDomains)
  IN  \E k \in 1..Len(list) : h = list[k] \/ endsWith(h, <<".">> \o list[k])

\* ---- the inputs ----
Domains == {<<"a">>, <<"b", ".", "a">>, <<"A">>}

Prefixes == {<<>>, <<"*", ".">>, <<".">>, <<"*">>, <<" ">>, <<"https://">>}

Suffixes == {<<>>, <<".">>}

Entries ==
  {p \o d \o s : p \in Prefixes, d \in Domains, s \in Suffixes}
    \cup {<<>>, <<".">>, <<"http://", "a">>, <<"https://", "a", "/", "b">>}

Hostnames ==
  {<<>>, <<"a">>, <<"b", "a">>, <<"b", ".", "a">>, <<"b", ".", "A", ".">>, <<"b">>}

AllowLists == UNION {[1..n -> Entries] : n \in 0..MaxAllowed}

Reverse(list) == [k \in 1..Len(list) |-> list[Len(list) + 1 - k]]

\* the same entries in another order, or with one of them once more
Rearranged(list) ==
  {Reverse(list)}
    \cup (IF Len(list) <= MaxAllowed
          THEN {Append(list, list[k]) : k \in 1..Len(list)} ELSE {})

NoLookup ==
  /\ hostname = <<>>
  /\ allowed = <<>>
  /\ verdict = <<>>
  /\ asked = None
  /\ built = NoSelector

\* the check of FRL_START: isDomainAllowed(hostname, settings.allowedDomains)
Lookup ==
  /\ Len(verdict) < MaxLookups
  /\ verdict' = Append(verdict, isDomainAllowed(hostname, allowed))
  /\ UNCHANGED <<hostname, allowed, pageVars, recorderVars, playVars, selectorVars,
               overlapVars, contentVars>>

\* the options page stores the list again between two checks
Rearrange ==
  /\ Len(verdict) = 1
  /\ \E list \in Rearranged(allowed) : list # allowed /\ allowed' = list
  /\ UNCHANGED <<hostname, verdict, pageVars, recorderVars, playVars, selectorVars,
               overlapVars, contentVars>>

(***************************************************************************)
(* Part IV b.  FRL_START and FRL_STOP as the content script handles them:  *)
(* the handler of FRL_START awaits getSettings() before it starts the      *)
(* recorder, the handler of FRL_STOP runs at once.                         *)
(***************************************************************************)
NoContent ==
  /\ allowlistEnabled = FALSE
  /\ lookups = 0
  /\ sent = 0
  /\ stopped = FALSE
  /\ refused = FALSE

\* the check of the FRL_START handler on the settings it read
Skips == allowlistEnabled /\ ~isDomainAllowed(hostname, allowed)

\* the message arrives; the handler awaits chrome.storage.sync.get
StartSent ==
  /\ sent < MaxStarts
  /\ sent' = sent + 1
  /\ lookups' = lookups + 1
  /\ stopped' = FALSE
  /\ UNCHANGED <<allowlistEnabled, refused, pageVars, recorderVars, playVars, settingsVars,
                 selectorVars, overlapVars>>

\* getSettings() resolves: the handler responds with an error, or calls
\* recorder.start(), which returns at once when the recorder is recording
SettingsRead ==
  /\ lookups > 0
  /\ lookups' = lookups - 1
  /\ refused' = (refused \/ Skips)
  /\ IF Skips \/ isRecording THEN UNCHANGED <<pageVars, recorderVars>> ELSE Start
  /\ UNCHANGED <<allowlistEnabled, sent, stopped, playVars, settingsVars, selectorVars,
                 overlapVars>>

\* the handler of FRL_STOP: recorder.stop(), then sendResponse({ ok: true })
StopSent ==
  /\ Stop
  /\ stopped' = TRUE
  /\ UNCHANGED <<allowlistEnabled, lookups, sent, refused, playVars, settingsVars,
                 selectorVars, overlapVars>>

(***************************************************************************)
(* Specification of the recorder.                                          *)
(***************************************************************************)
PageLoaded ==
  /\ now = 0
  /\ href = "u0"
  /\ title = "t0"
  /\ detached = {}
  /\ pageEvents = 0

PageInit == PageLoaded /\ text = [r \in Regions |-> ""]

RecorderInit ==
  /\ isRecording = FALSE
  /\ steps = <<>>
  /\ lastActivityTs = 0
  /\ scrollBuffer = NoBuffer
  /\ scrollFlushTimer = NoTimer
  /\ hoverBuffer = NoBuffer
  /\ hoverFlushTimer = NoTimer
  /\ dragState = NoDrag
  /\ wins = {}
  /\ downloaded = NoPayload
  /\ sessions = 0
  /\ nextId = 0
  /\ waitsOf = [i \in 0..(MaxActions - 1) |-> 0]
  /\ urlDifferedOf = [i \in 0..(MaxActions - 1) |-> FALSE]
  /\ flagsOf = [i \in 0..(MaxActions - 1) |-> NoFlags]
  /\ firstOf = [i \in 0..(MaxActions - 1) |-> NoneSeen]
  /\ kept = NoDump
  /\ wheel = NoWheel

\* a constructed CDPReplayer, an empty tabReplayers map, no debugger session
ReplayerInit ==
  /\ isAttached = FALSE
  /\ handlers = NoHandlers
  /\ lastAction = NoLastAction
  /\ session = FALSE
  /\ calls = {}
  /\ nextCall = 0
  /\ entry = FALSE
  /\ stopper = [pc |-> "idle", during |-> ""]
  /\ att = NoAttach
  /\ play = NoPlay
  /\ dets = [c \in Callers |-> NoDetach]
  /\ log = <<>>
  /\ externalSeen = FALSE
  /\ detachedAt = NoTimer

\* meta.version as the recorder's dump() writes it
RecorderVersion == 1

\* the versions of the traces handed to the replayer: the recorder's, and
\* the next major version
Versions == {RecorderVersion, RecorderVersion + 1}

NoPopup == [pc |-> "idle", ok |-> FALSE, error |-> NoMessage]

\* nobody asks for a replay
NoRequest ==
  /\ trace = <<>>
  /\ meta = [version |-> RecorderVersion]
  /\ thinkScale = <<1, 1>>
  /\ popup = NoPopup
  /\ budget = [stops |-> 0, externals |-> 0, faults |-> 0, attaches |-> 0]
  /\ marks = <<>>

Init ==
  /\ PageInit /\ RecorderInit /\ menu \in Menus /\ ReplayerInit /\ NoRequest /\ NoLookup
  /\ NoOverlap /\ NoContent

(***************************************************************************)
(* Dispatch: the content script's message listener, the DOM listeners that *)
(* start() registers, the page's own events and the timers.  A download    *)
(* response is delivered before the next event is handled.                 *)
(***************************************************************************)
\* no download response is in flight; the handlers of the page leave the
\* background's replayer alone
Quiet == Len(downloaded) = 0 /\ UNCHANGED <<playVars, settingsVars, overlapVars, contentVars, selectorVars>>

Offered(kind) == Quiet /\ kind \in menu

FRL_START == Quiet /\ Start

FRL_STOP == Quiet /\ Stop

Click == Offered("click") /\ \E e \in ClickTargets : OnClick(e)

DblClick == Offered("dblclick") /\ \E e \in ClickTargets : OnDblClick(e)

Keydown == Offered("press") /\ \E e \in KeyTargets : OnKeydown(e)

Input == Offered("type") /\ \E e \in InputTargets, ch \in Chars : OnInput(e, ch)

Wheel == Offered("wheel") /\ \E e \in WheelTargets, d \in WheelDeltas : OnWheel(e, d)

MouseMove == Offered("hover") /\ \E e \in HoverTargets : OnMouseMove(e)

MouseDown == Offered("drag") /\ \E e \in ClickTargets : OnMouseDown(e)

MouseUp == Quiet /\ \E e \in DragEnds, sel \in BOOLEAN : OnMouseUp(e, sel)

ScrollFlush == Quiet /\ ScrollTimer

HoverFlush == Quiet /\ HoverTimer

\* "append": the page adds an element to the panel and changes no text
DomMutation ==
  \/ /\ Offered("mutate")
     /\ \E t \in MutationTargets, a \in BOOLEAN, c \in BOOLEAN : Mutate(t, a, c)
  \/ /\ Offered("append")
     /\ Mutate("panel", TRUE, FALSE)

TitleMutation == Offered("title") /\ \E t \in Titles, u \in Urls : TitleChange(t, u)

LocationChange == Offered("navigate") /\ \E u \in Urls, f \in BOOLEAN : Navigate(u, f)

NodeRemoval == Offered("detach") /\ \E e \in Removable : DetachNode(e)

PageActivity == Offered("activity") /\ OnAnyActivity

WindowTimer == Quiet /\ \E w \in wins : WinWake(w)

Tick == Quiet /\ Advance

Next ==
  \/ FRL_START
  \/ FRL_STOP
  \/ FRL_DOWNLOAD
  \/ Delivered
  \/ Click
  \/ DblClick
  \/ Keydown
  \/ Input
  \/ Wheel
  \/ MouseMove
  \/ MouseDown
  \/ MouseUp
  \/ ScrollFlush
  \/ HoverFlush
  \/ DomMutation
  \/ TitleMutation
  \/ LocationChange
  \/ NodeRemoval
  \/ PageActivity
  \/ WindowTimer
  \/ Tick

Spec == Init /\ [][Next]_vars

\* ---- the specification of a recording whose dump is kept ----
DumpInit ==
  /\ PageInit /\ RecorderInit /\ menu = {"click"} /\ ReplayerInit /\ NoRequest /\ NoLookup
  /\ NoOverlap /\ NoContent

DumpNext ==
  \/ FRL_START
  \/ FRL_STOP
  \/ FRL_DOWNLOAD
  \/ Delivered
  \/ Dump
  \/ Click
  \/ WindowTimer
  \/ Tick

DumpSpec == DumpInit /\ [][DumpNext]_vars

(***************************************************************************)
(* Specification of a replay: the popup's PLAY request, or a caller that   *)
(* holds the replayer itself, plays one trace; the user may stop it, the   *)
(* browser may end the debugger session and commands may fail.             *)
(***************************************************************************)
InitText == [r \in Regions |-> ""]

Shape(name, e, to) == ActionStep(name, e, to, "", FALSE, 0, 0, InitText)

WaitShape(pred, e) == WaitPredicateStep(pred, buildSelector(e, InitText), 0, 0)

Predicates == {PREDICATE_PRIORITY[i] : i \in 1..Len(PREDICATE_PRIORITY)}

TypeEditor == [Shape("type", "editor", None) EXCEPT !.text = "s"]

ActionShapes ==
  {Shape("click", "btn", None), Shape("dblclick", "btn", None),
   Shape("press", "pwd", None), Shape("hover", "link", None),
   Shape("scroll", "body", None), Shape("drag", "btn", "live"),
   [Shape("highlight", "btn", "live") EXCEPT !.text = "selected"],
   [Shape("navigate", "html", None) EXCEPT !.url = "u1"],
   [Shape("type", "key", None) EXCEPT !.text = "s"],
   [Shape("type", "pwd", None) EXCEPT !.text = Mask, !.redacted = TRUE],
   TypeEditor}

WaitShapes ==
  {WaitShape(p, "panel") : p \in Predicates}
    \cup {WaitShape("textChanged", "editor"), WaitShape("domAdded", "editor")}

\* the steps of the traces of more than one step
CoreShapes ==
  {Shape("click", "btn", None), TypeEditor,
   WaitShape("textChanged", "editor"), WaitShape("urlChanged", "panel")}

\* the distance of two timestamps (negative: the later step is stamped
\* earlier) and the think scale as numerator and denominator
Paces ==
  {[gap |-> 0, scale |-> <<1, 1>>], [gap |-> 2000, scale |-> <<1, 1>>],
   [gap |-> 2000, scale |-> <<0, 1>>], [gap |-> 1000, scale |-> <<1, 2>>],
   [gap |-> -1000, scale |-> <<1, 1>>]}

\* what disturbs a run: the user, the browser or a failing command; for the
\* shortest traces of the recorder's version the user and the browser
\* together, and for the empty one also callers of attach()
Budgets(n, version) ==
  {[stops |-> MaxStops, externals |-> 0, faults |-> 0, attaches |-> 0],
   [stops |-> 0, externals |-> MaxExternalDetaches, faults |-> 0, attaches |-> 0],
   [stops |-> 0, externals |-> 0, faults |-> MaxFaults, attaches |-> 0]}
    \cup (IF n <= 1 /\ version = RecorderVersion
          THEN {[stops |-> MaxStops, externals |-> MaxExternalDetaches, faults |-> 0,
                 attaches |-> 0]}
          ELSE {})
    \cup (IF n = 0 /\ version = RecorderVersion
          THEN {[stops |-> MaxStops, externals |-> MaxExternalDetaches, faults |-> 0,
                 attaches |-> MaxAttaches]}
          ELSE {})

Stamped(shapes, gap) ==
  [i \in 1..Len(shapes) |->
     [shapes[i] EXCEPT !.timestamp = IF gap >= 0 THEN (i - 1) * gap
                                     ELSE (i - Len(shapes)) * gap,
                       !.id = i,
                       !.tabLid = DefaultTabLid]]

\* traces in which one step stands between a type into the editor and a
\* later step on the editor: a click elsewhere, or a wait on another container
Interposed ==
  {<<TypeEditor, between, after>> :
     between \in {Shape("click", "btn", None), WaitShape("urlChanged", "panel")},
     after \in {TypeEditor, WaitShape("textChanged", "editor")}}

InterposedPaces ==
  {[gap |-> 0, scale |-> <<1, 1>>], [gap |-> 2000, scale |-> <<1, 1>>]}

Request ==
  /\ \/ \E n \in 0..MaxTraceLen :
          \E shapes \in [1..n -> IF n <= 1 THEN ActionShapes \cup WaitShapes
                                          ELSE CoreShapes] :
            \E pace \in IF n <= 1 THEN {[gap |-> 0, scale |-> <<1, 1>>]} ELSE Paces :
              /\ trace = Stamped(shapes, pace.gap)
              /\ thinkScale = pace.scale
     \/ \E shapes \in Interposed, pace \in InterposedPaces :
          /\ trace = Stamped(shapes, pace.gap)
          /\ thinkScale = pace.scale
  /\ meta \in [version : IF Len(trace) <= 1 THEN Versions ELSE {RecorderVersion}]
  /\ popup \in {NoPopup} \cup (IF Len(trace) <= 1
                               THEN {[NoPopup EXCEPT !.pc = "none"]} ELSE {})
  /\ budget \in Budgets(Len(trace), meta.version)
  /\ marks = [i \in 1..Len(trace) |-> NoMark]

\* a step of the trace waits for an announcement
AwaitsAnnouncement ==
  \E i \in 1..Len(trace) :
    trace[i].kind = "waitForPredicate" /\ trace[i].predicate = "ariaLiveUpdated"

\* the page as the replay finds it: for a trace that waits for an
\* announcement the live regions may hold text already
PageFound ==
  /\ PageLoaded
  /\ text \in {InitText}
       \cup (IF AwaitsAnnouncement
             THEN {[r \in Regions |-> IF r \in AriaLive THEN "x" ELSE ""]} ELSE {})

PlayInit ==
  /\ RecorderInit /\ menu = {} /\ ReplayerInit /\ Request /\ PageFound /\ NoLookup
  /\ NoOverlap /\ NoContent

PlayNext ==
  \/ FRL_POPUP_PLAY
  \/ PopupAttached
  \/ PopupPlayed
  \/ PopupCatch
  \/ PopupDetached
  \/ FRL_POPUP_STOP_PLAY
  \/ StopDetached
  \/ CallPlay
  \/ CallAttach
  \/ CallerAttached
  \/ CallDetach
  \/ AttachBegin
  \/ AttachDebuggerReturns
  \/ EnableDomainsReturns
  \/ DetachBegin
  \/ DetachDebuggerReturns
  \/ SessionLost
  \/ OnDetach
  \/ PlayStart
  \/ PlayAttached
  \/ PlayLoop
  \/ PlayStep
  \/ PlayOp
  \/ CommandReturns
  \/ PlayResumed
  \/ PlayCatch
  \/ Announce
  \/ PlayWake
  \/ PlayTick

PlaySpec == PlayInit /\ [][PlayNext]_vars

\* ---- the specification of the allow list ----
LookupInit ==
  /\ PageInit /\ RecorderInit /\ menu = {} /\ ReplayerInit /\ NoRequest /\ NoOverlap /\ NoContent
  /\ hostname \in Hostnames
  /\ allowed \in AllowLists
  /\ verdict = <<>>
  /\ asked = None
  /\ built = NoSelector

LookupNext == Lookup \/ Rearrange

LookupSpec == LookupInit /\ [][LookupNext]_vars

\* ---- the specification of the selector resolver ----
\* the page writes v into region r
PageWrites ==
  /\ \E r \in Regions, v \in TextVals :
       /\ text[r] # v
       /\ text' = [text EXCEPT ![r] = v]
  /\ asked' = None
  /\ built' = NoSelector
  /\ UNCHANGED <<now, href, title, detached, pageEvents, recorderVars, playVars,
                 settingsVars, overlapVars, contentVars>>

\* buildSelector(e)
BuildSelector ==
  /\ \E e \in Elements :
       /\ asked' = e
       /\ built' = buildSelector(e, text)
  /\ UNCHANGED <<pageVars, recorderVars, playVars, settingsVars, overlapVars, contentVars>>

SelectorInit ==
  /\ PageInit /\ RecorderInit /\ menu = {} /\ ReplayerInit /\ NoRequest /\ NoLookup
  /\ NoOverlap /\ NoContent

SelectorNext == PageWrites \/ BuildSelector

SelectorSpec == SelectorInit /\ [][SelectorNext]_vars

(***************************************************************************)
(* Specification of two FRL_POPUP_PLAY requests for the same tab.          *)
(***************************************************************************)
OverlapInit ==
  /\ PageInit /\ RecorderInit /\ menu = {} /\ ReplayerInit /\ NoRequest /\ NoLookup
  /\ NoOverlap /\ NoContent

OverlapNext ==
  \E q \in Requests :
    \/ PopupPlayRequest(q)
    \/ ReplayerDetached(q)
    \/ ReplayerAttached(q)
    \/ DomainsEnabled(q)
    \/ StepCommandReturns(q)

OverlapSpec == OverlapInit /\ [][OverlapNext]_vars

(***************************************************************************)
(* Specification of the content script's FRL_START and FRL_STOP handlers.  *)
(***************************************************************************)
ContentInit ==
  /\ PageInit /\ RecorderInit /\ menu = {} /\ ReplayerInit /\ NoRequest /\ NoOverlap
  /\ hostname \in Hostnames
  /\ allowed \in AllowLists
  /\ verdict = <<>>
  /\ asked = None
  /\ built = NoSelector
  /\ allowlistEnabled \in BOOLEAN
  /\ lookups = 0
  /\ sent = 0
  /\ stopped = FALSE
  /\ refused = FALSE

ContentNext == StartSent \/ SettingsRead \/ StopSent

ContentSpec == ContentInit /\ [][ContentNext]_vars

(***************************************************************************)
(* Properties of the recorder and of the downloaded trace.                 *)
(***************************************************************************)
IsWait(st) == st.kind = "waitForPredicate"
IsAction(st) == st.kind = "action"

SensitiveAsSpecified(e) ==
  \/ (Dom[e].tag = "input" /\ Dom[e].type = "password")
  \/ matchesSensitive(Dom[e].labelText)
  \/ matchesSensitive(Dom[e].ariaLabel)
  \/ matchesSensitive(Dom[e].titleAttr)
  \/ matchesSensitive(Dom[e].placeholder)

RECURSIVE Repeat(_, _)
Repeat(ch, n) == IF n = 0 THEN "" ELSE Repeat(ch, n - 1) \o ch

\* the strings made of typed characters only
TypedStrings == {Repeat(ch, n) : ch \in Chars, n \in 1..(MaxActions + 1)}

HasTyped(q) == \E k \in 1..Len(q) : q[k] \in TypedStrings

SelectorExposes(sel) ==
  \/ HasTyped(sel.selector)
  \/ HasTyped(sel.textHint)
  \/ \E a \in 1..Len(sel.alternatives) : HasTyped(sel.alternatives[a])

Exposes(st) ==
  \/ st.text \in TypedStrings
  \/ SelectorExposes(st.selector)
  \/ SelectorExposes(st.toSelector)

\* C2: for every input event on a password field, or on a field whose label,
\* aria-label, title or placeholder matches the sensitivity pattern, the type
\* step in the downloaded payload has text "***" and redacted = true, and the
\* typed characters appear in no field of any step of the payload.
C2_SensitiveInputIsRedacted ==
  \A p \in 1..Len(downloaded) :
    \A i \in 1..Len(downloaded[p]) :
      LET st == downloaded[p][i] IN
      (IsAction(st) /\ st.name = "type" /\ SensitiveAsSpecified(st.el))
        => /\ st.text = Mask
           /\ st.redacted
           /\ \A j \in 1..Len(downloaded[p]) : ~Exposes(downloaded[p][j])

C4_ExactlyOneWaitPerAction ==
  \A id \in 0..(nextId - 1) :
    IF \E w \in wins : w.id = id THEN waitsOf[id] = 0 ELSE waitsOf[id] = 1

\* C5: no action step is captured while the window of an earlier action is
\* open: in the step list every action step is directly followed by its own
\* waitForPredicate step before the next action step appears.
C5_ActionDirectlyFollowedByItsWait ==
  \A i \in 1..Len(steps) :
    IsAction(steps[i])
      => \/ i = Len(steps)
         \/ (IsWait(steps[i + 1]) /\ steps[i + 1].id = steps[i].id)
(***************************************************************************)
(* Properties of a replay.                                                 *)
(***************************************************************************)
Attempted(i) == marks[i].attempted
Failed(i) == marks[i].outcome = "failed"
Finished(i) == marks[i].outcome # "none"
Settles == play.pc \in {"done", "rejected"}

\* C6: in play(), a failed action step (element not found, command rejected,
\* evaluation exception) never aborts playback and every later step is still
\* attempted, in order; a failed waitForPredicate step makes play() reject
\* with a descriptive error and no later step is attempted.
C6_ActionFailureContinuesWaitFailureRejects ==
  /\ \A i \in 1..Len(trace) :
       /\ (Failed(i) /\ IsAction(trace[i])) => play.idx > i
       /\ (Failed(i) /\ IsWait(trace[i])) =>
            /\ play.pc = "rejected" /\ play.idx = i
            /\ Len(play.err) > 3 /\ play.err[1] = "Wait for "
            /\ \A j \in (i + 1)..Len(trace) : ~Attempted(j)
       /\ Attempted(i) => \A j \in 1..(i - 1) : Finished(j) /\ marks[j].endAt <= marks[i].startAt
  /\ play.pc = "done" => \A i \in 1..Len(trace) : Finished(i)
  /\ (play.pc = "rejected" /\ play.idx > 0) =>
       IsWait(trace[play.idx]) /\ Failed(play.idx)

\* an action failed, the wait after it was still attempted, failed in turn
\* and made play() reject
C6_Witness ==
  /\ Len(trace) = 2 /\ IsAction(trace[1]) /\ Failed(1)
  /\ IsWait(trace[2]) /\ Failed(2) /\ play.pc = "rejected"
\* the human-readable names of the five predicates
HumanReadableName ==
  [urlChanged |-> "navigation", domAdded |-> "content to appear",
   ariaLiveUpdated |-> "announcement", textChanged |-> "text update",
   layoutStable |-> "page to settle"]

Names(msg, piece) == \E k \in 1..Len(msg) : msg[k] = piece

NamesAll(msg, pieces) ==
  \E k \in 0..(Len(msg) - Len(pieces)) :
    \A n \in 1..Len(pieces) : msg[k + n] = pieces[n]

\* the wait of step i ended without its condition having been observed
Unobserved(i) == IsWait(trace[i]) /\ (marks[i].timedOut \/ Failed(i))

\* C7: a waitForPredicate step whose condition is not observed within the
\* 30 s ceiling makes play() reject with an error that names the predicate's
\* human-readable name and the container selector; no step after it is
\* executed.
C7_UnobservedWaitRejectsNamingPredicateAndContainer ==
  \A i \in 1..Len(trace) :
    Unobserved(i) =>
      /\ play.idx = i /\ play.pc # "done"
      /\ \A j \in (i + 1)..Len(trace) : ~Attempted(j)
      /\ Failed(i) =>
           /\ play.pc = "rejected"
           /\ Names(play.err, HumanReadableName[trace[i].predicate])
           /\ trace[i].selector.selector # <<>>
           /\ NamesAll(play.err, trace[i].selector.selector)

\* a wait that polled, or was observed in the page, for more than 30 s has
\* made play() reject while a step was left in the trace
C7_Witness ==
  \E i \in 1..Len(trace) :
    /\ IsWait(trace[i]) /\ marks[i].timedOut /\ Failed(i)
    /\ marks[i].endAt - marks[i].startAt > WaitTimeoutMs
    /\ i < Len(trace)
    /\ play.pc = "rejected"
\* C9: once the external detach event for the replayer's tab has been
\* received, the replayer is Detached and no further protocol command is
\* issued: a play() in progress does not send the commands of the remaining
\* steps.
C9_NoCommandAfterExternalDetach ==
  \A k \in 1..Len(log) : ~log[k].external

\* the think time the trace asks for before step i
ThinkBefore(i) ==
  LET delta == trace[i].timestamp - trace[i - 1].timestamp
      scaled == ((IF delta > 0 THEN delta ELSE 0) * thinkScale[1]) \div thinkScale[2]
  IN  IF scaled > 1500 THEN 1500 ELSE scaled

PlayLog == SelectSeq(log, LAMBDA e : e.owner = "play")

\* C10: within one play() call the steps execute strictly one at a time and
\* in trace order: the first command of step i+1 is issued only after step i
\* has finished (succeeded or failed) and the think time has elapsed, and no
\* two applyAction/waitPredicate executions overlap.
C10_StepsRunOneAtATimeInTraceOrder ==
  /\ \A c \in calls : c.owner = "play" => c.step = play.idx /\ play.pc = "cmd"
  /\ \A k \in 1..Len(PlayLog) :
       LET i == PlayLog[k].step IN
       /\ \A m \in 1..(k - 1) : PlayLog[m].step <= i
       /\ \A j \in 1..(i - 1) : Finished(j) /\ marks[j].endAt <= PlayLog[k].at
       /\ i > 1 => PlayLog[k].at >= marks[i - 1].endAt + ThinkBefore(i)
  /\ \A i \in 1..Len(trace) :
       Attempted(i) =>
         /\ \A j \in 1..(i - 1) : Finished(j) /\ marks[j].endAt <= marks[i].startAt
         /\ \A j \in (i + 1)..Len(trace) : Attempted(j) => Finished(i)

\* both steps of a trace have sent commands, the second one after a think time
C10_Witness ==
  /\ Len(trace) = 2 /\ play.pc = "done"
  /\ ThinkBefore(2) > 0
  /\ \E k \in 1..Len(PlayLog) : PlayLog[k].step = 1
  /\ \E k \in 1..Len(PlayLog) : PlayLog[k].step = 2
(***************************************************************************)
(* A replay under the scheduling of the event loop: a callback that is due *)
(* runs, a timer that is due fires, a frame that can run does, and time    *)
(* passes when nothing else is due.  The user and the browser owe nothing. *)
(***************************************************************************)
Scheduled ==
  \/ CallerAttached
  \/ PopupAttached
  \/ PopupPlayed
  \/ PopupCatch
  \/ PopupDetached
  \/ StopDetached
  \/ AttachBegin
  \/ AttachDebuggerReturns
  \/ EnableDomainsReturns
  \/ DetachBegin
  \/ DetachDebuggerReturns
  \/ OnDetach
  \/ PlayStart
  \/ PlayAttached
  \/ PlayLoop
  \/ PlayStep
  \/ PlayOp
  \/ CommandReturns
  \/ PlayResumed
  \/ PlayCatch
  \/ PlayWake
  \/ PlayTick

FairPlaySpec == PlayInit /\ [][PlayNext]_vars /\ WF_vars(Scheduled)

\* detach() was called while play() slept, awaited a command or waited
StoppedWhileRunning == stopper.during \in {"think", "cmd", "sleep"}

\* with the session gone, the command or wait of the step in progress does
\* not outlast one poll period
FailsFast ==
  (~session /\ play.pc \in {"cmd", "sleep"}) =>
    now <= Max2(detachedAt, marks[play.idx].startAt) + WaitPollMs

ThinkCalls(i) ==
  IF i = 1 \/ ThinkBefore(i) = 0 THEN <<>> ELSE <<ThinkBefore(i)>>

Apart(i, ms) == i > 1 /\ trace[i].timestamp - trace[i - 1].timestamp = ms

\* C11: for every step after the first, play() sleeps exactly
\* min(1500, floor(max(0, timestamp - previous timestamp) * thinkScale)) ms
\* before applying it; sleep is called only when that value is positive and
\* never before the first step.  Timestamps 2000 ms apart give one
\* sleep(1500) at thinkScale 1 and no sleep at thinkScale 0.
C11_ThinkTimeIsScaledCappedDelta ==
  \A i \in 1..Len(trace) :
    /\ marks[i].think \in {<<>>, ThinkCalls(i)}
    /\ Attempted(i) =>
         /\ marks[i].think = ThinkCalls(i)
         /\ i > 1 => marks[i].startAt = marks[i - 1].endAt + ThinkBefore(i)
         /\ Apart(i, 2000) /\ thinkScale = <<1, 1>> => marks[i].think = <<1500>>
         /\ Apart(i, 2000) /\ thinkScale = <<0, 1>> => marks[i].think = <<>>

\* the second of two steps stamped 2000 ms apart has been applied after one
\* sleep of 1500 ms at thinkScale 1
C11_Witness ==
  /\ Len(trace) = 2 /\ Attempted(2) /\ Apart(2, 2000)
  /\ thinkScale = <<1, 1>> /\ marks[2].think = <<1500>>
  /\ marks[2].startAt = marks[1].endAt + 1500
(***************************************************************************)
(* The predicate an observation window records.                            *)
(***************************************************************************)
Rank(pred) == CHOOSE k \in 1..Len(PREDICATE_PRIORITY) : PREDICATE_PRIORITY[k] = pred

\* C12: the predicate a window records is the highest-priority flag set when
\* it resolves (urlChanged > domAdded > ariaLiveUpdated > textChanged >
\* layoutStable): no flag of higher priority than the recorded predicate is
\* set at resolution time.
C12_RecordedPredicateIsHighestSetFlag ==
  \A i \in 1..Len(steps) :
    IsWait(steps[i]) =>
      \A k \in 1..(Rank(steps[i].predicate) - 1) :
        ~flagsOf[steps[i].id][PREDICATE_PRIORITY[k]]
(***************************************************************************)
(* Shape of the recorded steps.                                            *)
(***************************************************************************)
Stamped1(list) == \A i \in 1..Len(list) : list[i].tabLid = 1

NonDecreasing(list) ==
  \A i \in 1..Len(list) : \A j \in i..Len(list) :
    list[i].timestamp <= list[j].timestamp

\* C14: in the recorder's step list, and hence in a dumped or downloaded
\* trace, timestamps are non-decreasing in list order, for any interleaving
\* of action captures and observation-window completions.
C14_TimestampsNonDecreasing ==
  /\ NonDecreasing(steps)
  /\ NonDecreasing(dump)
  /\ Len(downloaded) > 0 => NonDecreasing(downloaded[1])

\* the wait of an earlier action was appended after a later action was
\* captured, at a later time
C14_Witness ==
  \E i \in 1..Len(steps) : \E j \in (i + 1)..Len(steps) :
    /\ IsAction(steps[i]) /\ IsWait(steps[j])
    /\ steps[j].id < steps[i].id
    /\ steps[i].timestamp < steps[j].timestamp
    /\ steps[1].timestamp < steps[i].timestamp
(***************************************************************************)
(* Session lifecycle of the replayer.                                      *)
(***************************************************************************)
AttachCalls(cs) == {c \in cs : c.api = "attach"}

EnableLog == SelectSeq(log, LAMBDA e : e.owner = "attach")

\* the commands enableDomains() has sent since the last chrome.debugger.attach
LastEnabled ==
  [n \in 1..Len(EnableMethods) |->
     EnableLog[Len(EnableLog) - Len(EnableMethods) + n].method]

\* C15: attach() on an attached replayer is a no-op: no second debugging
\* session is opened, no enable command is issued, no listener is
\* registered.  A first attach() opens exactly one session, and the
\* replayer counts as attached only after exactly the four domains Page,
\* DOM, Runtime and Network have been enabled in it.
C15_AttachIsIdempotentAndEnablesFourDomains ==
  [][/\ (att.pc = "begin" /\ isAttached) =>
          /\ att'.pc = "done"
          /\ UNCHANGED <<session, calls, nextCall, log, handlers, isAttached>>
     /\ (att.pc = "begin" /\ ~isAttached) =>
          /\ Cardinality(AttachCalls(calls') \ AttachCalls(calls)) = 1
          /\ UNCHANGED log
     /\ AttachCalls(calls') \ AttachCalls(calls) # {} =>
          att.pc = "begin" /\ ~isAttached
     /\ (~isAttached /\ isAttached') =>
          /\ session /\ handlers'.bound
          /\ Len(EnableLog) >= Len(EnableMethods)
          /\ LastEnabled = <<"Page.enable", "DOM.enable", "Runtime.enable",
                             "Network.enable">>
          /\ \A c \in calls' : c.owner # "attach"
     /\ Len(EnableLog') - Len(EnableLog) \in {0, 4}]_vars

\* a second attach() has returned on the attached replayer: one session was
\* opened and four commands were sent
C15_Witness ==
  /\ att.caller = "direct" /\ att.pc = "done"
  /\ budget.attaches = 0
  /\ isAttached /\ session /\ calls = {}
  /\ Len(log) = 4 /\ nextCall = 5
\* a detach() call that found the replayer detached has returned
ReturnsAtOnce == \E who \in Callers : dets[who].pc = "run" /\ dets'[who].pc = "done"

\* the callbacks of chrome.debugger.detach that run in this step and report
\* "not attached" / "No target with given id"
ToleratedNow == {c \in calls \ calls' : c.api = "detach" /\ ~c.live}

DetachDoesNothingWhenDetached ==
  [][ReturnsAtOnce =>
       /\ ~isAttached
       /\ UNCHANGED <<session, calls, nextCall, log, handlers, isAttached>>]_vars

DetachToleratesAlreadyDetached ==
  [][\A c \in ToleratedNow : dets'[c.owner].pc = "done" /\ ~isAttached']_vars

\* C16: detach() on a detached replayer does nothing, and when the transport
\* reports that the target is already detached ("not attached", "No target
\* with given id") detach() still completes successfully, leaving the
\* replayer detached with all listeners unsubscribed.
C16_DetachIsIdempotentAndTolerant ==
  [][/\ ReturnsAtOnce =>
          /\ ~isAttached
          /\ UNCHANGED <<session, calls, nextCall, log, handlers, isAttached>>
     /\ \A c \in ToleratedNow :
          /\ dets'[c.owner].pc = "done"
          /\ ~isAttached'
          /\ handlers' = NoHandlers]_vars

(***************************************************************************)
(* C17.                                                                    *)
(***************************************************************************)
UnknownMajorVersion == meta.version # RecorderVersion

\* a step of the trace has been applied: play() entered its try block for
\* it, or a command of play() reached the transport
SomeStepApplied == (\E i \in 1..Len(trace) : Attempted(i)) \/ PlayLog # <<>>

\* C17: replay rejects a trace whose meta.version is an unknown major
\* version: play() and the background play handler apply no step of such a
\* trace and report an error instead of guessing.
C17_UnknownMajorVersionIsRejected ==
  UnknownMajorVersion =>
    /\ ~SomeStepApplied
    /\ play.pc # "done"
    /\ ~popup.ok

(***************************************************************************)
(* C18.                                                                    *)
(***************************************************************************)
IsType(st) == IsAction(st) /\ st.name = "type"

\* the text insertions play() has issued for step i
Insertions(i) ==
  SelectSeq(PlayLog, LAMBDA e : e.step = i /\ e.method = "Input.insertText")

\* C18: applying a type step with redacted = true never issues a text
\* insertion, whatever action.text contains; a non-redacted type step with
\* non-empty text issues one insertion and no more, carrying exactly that
\* text: none before the step's element is resolved and focused, exactly one
\* once the step has been applied without failing.
C18_RedactedTypeInsertsNothingOthersInsertOnce ==
  \A i \in 1..Len(trace) :
    IsType(trace[i]) =>
      IF trace[i].redacted
      THEN Insertions(i) = <<>>
      ELSE trace[i].text # "" =>
             /\ Len(Insertions(i)) <= 1
             /\ \A k \in 1..Len(Insertions(i)) : Insertions(i)[k].arg = trace[i].text
             /\ marks[i].outcome = "ok" => Len(Insertions(i)) = 1

\* a replay has applied a redacted type step whose text is not empty
C18_Witness ==
  /\ play.pc = "done" /\ Len(trace) = 1 /\ IsType(trace[1])
  /\ marks[1].outcome = "ok"
  /\ trace[1].redacted /\ trace[1].text # ""

\* a replay has applied a non-redacted type step and inserted its text
InsertedOnce ==
  /\ play.pc = "done" /\ Len(trace) = 1 /\ IsType(trace[1])
  /\ marks[1].outcome = "ok"
  /\ ~trace[1].redacted /\ Len(Insertions(1)) = 1

(***************************************************************************)
(* C19.                                                                    *)
(***************************************************************************)
IsClick(st) == IsAction(st) /\ st.name \in {"click", "dblclick"}

IsPointer(e) == e.owner = "play" /\ e.method = "Input.dispatchMouseEvent"

\* the pointer events play() has issued for step i: <<type, clickCount>>
Pointer(i) ==
  LET es == SelectSeq(log, LAMBDA e : IsPointer(e) /\ e.step = i)
  IN  [k \in 1..Len(es) |-> <<es[k].arg, es[k].clickCount>>]

\* one move, then n press/release pairs with clickCount 1, .., n
Gesture(n) ==
  [k \in 1..(2 * n + 1) |->
     IF k = 1 THEN <<"mouseMoved", 0>>
     ELSE IF k % 2 = 0 THEN <<"mousePressed", k \div 2>>
     ELSE <<"mouseReleased", k \div 2>>]

Repetitions(st) == IF st.name = "dblclick" THEN 2 ELSE 1

IsPrefix(s, t) == Len(s) <= Len(t) /\ \A k \in 1..Len(s) : s[k] = t[k]

\* this step issues a pointer event for a click or dblclick step
IssuesClickEvent ==
  /\ Len(log') = Len(log) + 1
  /\ IsPointer(log'[Len(log')])
  /\ IsClick(trace[log'[Len(log')].step])

\* C19: a click step issues one pointer move followed by exactly one
\* press/release pair with clickCount 1; a dblclick step issues one move
\* followed by exactly two press/release pairs with clickCount 1 then 2;
\* every press precedes its release, and no pair (no pointer event at all)
\* is issued when the element cannot be resolved.
C19_ClickIsMoveThenPressReleasePairs ==
  [][/\ \A i \in 1..Len(trace) :
          IsClick(trace[i]) =>
            /\ IsPrefix(Pointer(i)', Gesture(Repetitions(trace[i])))
            /\ marks'[i].outcome = "ok" => Pointer(i)' = Gesture(Repetitions(trace[i]))
     /\ IssuesClickEvent => "start" \in play.found]_vars

\* a replay has applied a dblclick step: a move and two pairs
C19_Witness ==
  /\ play.pc = "done" /\ Len(trace) = 1 /\ trace[1].name = "dblclick"
  /\ marks[1].outcome = "ok"
  /\ Pointer(1) = Gesture(2)

\* a click step has failed because its element could not be resolved
ClickUnresolved ==
  /\ play.pc = "catch" /\ IsClick(trace[play.idx])
  /\ play.err = <<"Element not found for click">>
  /\ Pointer(play.idx) = <<>>

(***************************************************************************)
(* C20.                                                                    *)
(***************************************************************************)
startsWith(s, t) == Len(t) <= Len(s) /\ SubSeq(s, 1, Len(t)) = t

DropFirst(s, n) == SubSeq(s, n + 1, Len(s))

StripTrailingDot(s) ==
  IF endsWith(s, <<".">>) THEN SubSeq(s, 1, Len(s) - 1) ELSE s

HostnameOfUrl(s) ==
  IF s # <<>> /\ Head(s) \in Schemes /\ URLhostname(s) # <<>> THEN URLhostname(s) ELSE s

\* x is label(s).n
Subdomain(x, n) ==
  \E k \in 1..Len(x) : x = SubSeq(x, 1, k) \o <<".">> \o n

Entered(list) == {list[k] : k \in 1..Len(list)}

\* the normal form as stated: lower case, the hostname of an http(s) URL,
\* without a leading "*." or "." and without a trailing dot
StatedNormalForm(d) ==
  LET h == HostnameOfUrl(toLowerCase(d))
  IN  StripTrailingDot(IF startsWith(h, <<"*", ".">>) THEN DropFirst(h, 2)
                       ELSE IF startsWith(h, <<".">>) THEN DropFirst(h, 1)
                       ELSE h)

StatedAllowed ==
  \E e \in Entered(allowed) :
    \/ StatedNormalForm(hostname) = StatedNormalForm(e)
    \/ Subdomain(StatedNormalForm(hostname), StatedNormalForm(e))

\* C20: isDomainAllowed(hostname, allowed) is true exactly when the
\* normalized hostname equals, or is a dot-separated subdomain of, some
\* normalized entry of allowed, where normalization lower-cases, reduces an
\* http(s) URL to its hostname and strips a leading "*." or "." and a
\* trailing dot; it is false otherwise, including for an empty list, and the
\* result does not depend on the order or duplication of entries.
C20_AllowedExactlyWhenStatedNormalFormsMatch ==
  \A k \in 1..Len(verdict) : verdict[k] = StatedAllowed

\* the normal form with what the statement leaves out: surrounding white
\* space is trimmed first, and a leading "*" is stripped with or without the
\* dot after it
TrimmedNormalForm(d) ==
  LET h == HostnameOfUrl(toLowerCase(trim(d)))
  IN  StripTrailingDot(IF startsWith(h, <<"*", ".">>) THEN DropFirst(h, 2)
                       ELSE IF startsWith(h, <<"*">>) THEN DropFirst(h, 1)
                       ELSE IF startsWith(h, <<".">>) THEN DropFirst(h, 1)
                       ELSE h)

TrimmedAllowed ==
  \E e \in Entered(allowed) :
    /\ TrimmedNormalForm(e) # <<>>
    /\ \/ TrimmedNormalForm(hostname) = TrimmedNormalForm(e)
       \/ Subdomain(TrimmedNormalForm(hostname), TrimmedNormalForm(e))

\* C20 (amended): isDomainAllowed(hostname, allowed) is true exactly when
\* the normalized hostname equals, or is a dot-separated subdomain of, some
\* non-empty normalized entry of allowed, where normalization trims
\* surrounding white space, lower-cases, reduces an http(s) URL to its
\* hostname and strips a leading "*", "*." or "." and a trailing dot; it is
\* false otherwise, including for an empty list, and the result does not
\* depend on the order or duplication of entries.
C20_AllowedExactlyWhenTrimmedNormalFormsMatch ==
  \A k \in 1..Len(verdict) : verdict[k] = TrimmedAllowed

\* a hostname was found to be a subdomain of an entry that had to be
\* normalized, before and after the list was rearranged
C20_Witness ==
  /\ Len(verdict) = MaxLookups /\ verdict[1] /\ verdict[MaxLookups]
  /\ Len(allowed) > MaxAllowed
  /\ hostname = <<"b", ".", "a">>
  /\ \A e \in Entered(allowed) : TrimmedNormalForm(e) # e
  /\ \E e \in Entered(allowed) : TrimmedNormalForm(e) = <<"a">>

(***************************************************************************)
(* C21.                                                                    *)
(***************************************************************************)
\* the element has a role that may be used and an accessible name
HasRoleAndName(e) ==
  /\ roleHintFor(e) \notin {""} \cup DISALLOWED_ARIA_ROLES
  /\ accessibleName(e, text) # NoText

HasTestId(e) == Dom[e].testid # ""

EndsWithNthOfType(e, sel) ==
  endsWith(sel, <<Dom[e].tag, ":nth-of-type(", Dom[e].nth, ")">>)

\* what cssPart prefers to the position among the siblings
HasAnchor(e) ==
  \/ Dom[e].id # ""
  \/ Dom[e].type # "" \/ Dom[e].ariaLabel # "" \/ Dom[e].roleAttr # ""

PriorityOfRoleAndTestId ==
  asked # None =>
    /\ HasRoleAndName(asked) /\ HasTestId(asked) => built.strategy = "aria"
    /\ ~HasRoleAndName(asked) /\ HasTestId(asked) => built.strategy = "data"
    /\ ~HasRoleAndName(asked) /\ ~HasTestId(asked) => built.strategy = "css"

OnlyTestId == asked = "card" /\ built.strategy = "data"
PlainElement == asked = "live" /\ EndsWithNthOfType(asked, built.selector)

(***************************************************************************)
(* C22.                                                                    *)
(***************************************************************************)
\* the highest-priority flag set in flags
Best(flags) ==
  PREDICATE_PRIORITY[CHOOSE k \in 1..Len(PREDICATE_PRIORITY) :
                       /\ flags[PREDICATE_PRIORITY[k]]
                       /\ \A j \in 1..(k - 1) : ~flags[PREDICATE_PRIORITY[j]]]

\* the window of wait step st saw a flag before it resolved
SawFlag(st) == IsWait(st) /\ firstOf[st.id].pred # ""

GraceRule(st) ==
  LET first == firstOf[st.id] IN
  IF first.pred = "urlChanged"
  THEN st.predicate = "urlChanged" /\ st.timestamp = first.at
  ELSE /\ st.timestamp = first.at + GraceMs
       /\ st.predicate = Best(flagsOf[st.id])
       /\ Rank(st.predicate) <= Rank(first.pred)

GraceRuleHolds ==
  \A i \in 1..Len(steps) : SawFlag(steps[i]) => GraceRule(steps[i])

\* C22: once the first signal flag is observed in an observation window, if
\* it is urlChanged the window resolves immediately; otherwise the detector
\* waits one 100 ms grace period and records the best flag set at the end of
\* it, so a higher-priority signal firing within the grace period replaces
\* the first one and signals firing after it have no effect on the recorded
\* predicate.
C22_UrlChangedAtOnceOthersAfterOneGrace ==
  [][/\ GraceRuleHolds'
     /\ steps' = <<>> \/ IsPrefix(steps, steps')]_vars

\* a window first saw textChanged and, after the grace period, recorded the
\* domAdded that fired meanwhile
C22_Witness ==
  \E i \in 1..Len(steps) :
    /\ SawFlag(steps[i]) /\ firstOf[steps[i].id].pred = "textChanged"
    /\ steps[i].predicate = "domAdded"
    /\ steps[i].timestamp = firstOf[steps[i].id].at + GraceMs

\* a window that saw urlChanged resolved at that instant, and more was
\* recorded after it
UrlChangedAtOnce ==
  \E i \in 1..Len(steps) :
    /\ SawFlag(steps[i]) /\ firstOf[steps[i].id].pred = "urlChanged"
    /\ i < Len(steps)

(***************************************************************************)
(* C23: the end of an observation window.                                  *)
(***************************************************************************)
\* the latest instant at which the window opened at time t appends its wait
Deadline(t) == t + WindowMs + GraceMs

\* none of the four signals of the page is set in flags
NoSignal(flags) ==
  /\ ~flags.urlChanged
  /\ ~flags.domAdded
  /\ ~flags.ariaLiveUpdated
  /\ ~flags.textChanged

\* window w is closed by this step
Closes(w) == w \in wins /\ \A v \in wins' : v.id # w.id

\* this step appends the one wait step of window w, stamped now, no later
\* than the deadline of w, and layoutStable when w saw no signal
AppendsItsWait(w) ==
  /\ waitsOf[w.id] = 0
  /\ waitsOf'[w.id] = 1
  /\ Len(steps') = Len(steps) + 1 \/ (~IsPrefix(steps, steps') /\ Len(steps') = 1)
  /\ LET last == steps'[Len(steps')] IN
       /\ last.kind = "waitForPredicate"
       /\ last.id = w.id
       /\ \E k \in 1..Len(PREDICATE_PRIORITY) : last.predicate = PREDICATE_PRIORITY[k]
       /\ last.timestamp = now
       /\ last.timestamp <= Deadline(w.start)
       /\ NoSignal(w.flags) => last.predicate = "layoutStable"

\* C23: every observation window ends within WindowMs of its start plus at
\* most one grace period: while it is open its next wake-up is pending and
\* lies no later than that deadline and no wait step of it has been appended;
\* the step that closes it appends exactly one wait step, stamped no later
\* than the deadline, whose predicate is layoutStable when no other signal
\* was seen, whether or not the page was ever idle for IdleMs.
C23_WindowEndsByDeadlineWithOnePredicate ==
  [][/\ \A w \in wins' : /\ now' <= w.wakeAt
                         /\ w.wakeAt <= Deadline(w.start)
                         /\ waitsOf'[w.id] = 0
     /\ \A w \in wins : Closes(w) => AppendsItsWait(w)]_vars

\* a window that ran out appended layoutStable at the end of WindowMs
\* although the page had been active less than IdleMs before
C23_Witness ==
  /\ steps # <<>>
  /\ LET last == steps[Len(steps)] IN
       /\ last.kind = "waitForPredicate"
       /\ last.predicate = "layoutStable"
       /\ last.timestamp = now
       /\ firstOf[last.id] = NoneSeen
       /\ waitsOf[last.id] = 1
       /\ NoSignal(flagsOf[last.id])
       /\ now - lastActivityTs < IdleMs
       /\ \A w \in wins : w.id # last.id

(***************************************************************************)
(* C24: the short-circuit of a textChanged wait.                           *)
(***************************************************************************)
\* play() issued a command for step i
Observed(i) == \E k \in 1..Len(log) : log[k].owner = "play" /\ log[k].step = i

\* step i was taken as satisfied without a single command
TakenAsSatisfied(i) == marks[i].outcome = "ok" /\ ~Observed(i)

\* step i is a type action on the container of the wait step j
TypesInto(i, j) ==
  /\ trace[i].kind = "action"
  /\ trace[i].name = "type"
  /\ trace[i].selector.selector = trace[j].selector.selector

\* C24: a textChanged wait is taken as satisfied without observing the page
\* only when the step right before it in the trace is a type action on the
\* identical container selector; after any other step (another selector, a
\* wait, another action, failed or not) it observes the page.
C24_TextChangedSkippedOnlyRightAfterTypeOnSameContainer ==
  \A i \in 1..Len(trace) :
    (/\ trace[i].kind = "waitForPredicate"
     /\ trace[i].predicate = "textChanged"
     /\ TakenAsSatisfied(i))
      => (i > 1 /\ TypesInto(i - 1, i))

(***************************************************************************)
(* C25: the focusing click of a type step.                                 *)
(***************************************************************************)
\* j is the action step right before step i, waits in between aside
PrecedingAction(j, i) ==
  /\ j < i
  /\ trace[j].kind = "action"
  /\ \A k \in (j + 1)..(i - 1) : trace[k].kind # "action"

\* the action right before the type step i was a type or click on the
\* identical selector, applied less than FocusRecentMs before
ContinuesTyping(i) ==
  \E j \in 1..(i - 1) :
    /\ PrecedingAction(j, i)
    /\ trace[j].name \in {"type", "click"}
    /\ trace[j].selector.selector # <<>>
    /\ trace[j].selector.selector = trace[i].selector.selector
    /\ marks[j].outcome = "ok"
    /\ marks[i].startAt - marks[j].endAt < FocusRecentMs

\* C25: an applied type step has issued one focusing click (a move, a press
\* and a release) before its text, unless the action right before it was a
\* type or click on the identical selector applied less than 2 s earlier, in
\* which case it has issued no pointer event; an action on another selector
\* in between, succeeded or failed, or 2 s or more, force the click.
C25_TypeFocusesUnlessRightAfterTypeOrClickOnSameSelector ==
  \A i \in 1..Len(trace) :
    (/\ trace[i].kind = "action"
     /\ trace[i].name = "type"
     /\ marks[i].outcome = "ok")
      => Pointer(i) = IF ContinuesTyping(i) THEN <<>> ELSE Gesture(1)

(***************************************************************************)
(* C26: a domAdded wait on an editable container.                          *)
(***************************************************************************)
\* step i is a domAdded wait whose recorded container is contenteditable
DomAddedOnEditable(i) ==
  /\ trace[i].kind = "waitForPredicate"
  /\ trace[i].predicate = "domAdded"
  /\ \E e \in ContentEditable : trace[i].selector = buildSelector(e, InitText)

\* play() has started the page's observer for additions for step i
ObserverStarted(i) ==
  \E k \in 1..Len(log) :
    /\ log[k].owner = "play" /\ log[k].step = i
    /\ log[k].method = "Runtime.callFunctionOn" /\ log[k].arg = "domObserver"

\* C26: a domAdded wait whose recorded container is editable is never
\* skipped and still waits for content to appear: it is not satisfied
\* without the page's observer having been started, and once the observer
\* has been started on a session that is still there, the wait fails only
\* by timing out, more than WaitTimeoutMs after it began.
C26_DomAddedOnEditableWaitsAndCanTimeOut ==
  \A i \in 1..Len(trace) :
    DomAddedOnEditable(i) =>
      /\ marks[i].outcome = "ok" => ObserverStarted(i)
      /\ (Failed(i) /\ ObserverStarted(i) /\ session)
           => marks[i].endAt - marks[i].startAt > WaitTimeoutMs

(***************************************************************************)
(* C27: what satisfies an ariaLiveUpdated wait.                            *)
(***************************************************************************)
IsAnnouncementWait(i) ==
  trace[i].kind = "waitForPredicate" /\ trace[i].predicate = "ariaLiveUpdated"

\* C27: an ariaLiveUpdated wait is satisfied only by a change of the live
\* regions relative to what they held when the wait started: a wait that
\* succeeded has seen live-region text different from that baseline, so text
\* that was there before the wait and never changed does not satisfy it.
C27_AnnouncementWaitSatisfiedOnlyByChange ==
  \A i \in 1..Len(trace) :
    (IsAnnouncementWait(i) /\ marks[i].outcome = "ok")
      => marks[i].liveAtEnd # marks[i].liveAtStart

(***************************************************************************)
(* C28: what detach() leaves behind.                                       *)
(***************************************************************************)
\* this step ends the replayer's session: detach() completes, or the
\* browser's detach event is handled
BecomesDetached == isAttached /\ ~isAttached'

\* C28: a detach, by detach() or by the browser, discards the replayer's
\* per-session state: the name, selector and time of the last applied action
\* are back to their initial values in the state it leaves, so that a later
\* play() on the same replayer starts as the first one did.
C28_DetachResetsLastAction ==
  [][BecomesDetached => lastAction' = NoLastAction]_vars

(***************************************************************************)
(* C29: a dump and a download leave the recorder's own list alone.         *)
(***************************************************************************)
\* this step answers a download request, or hands a dump to a caller
AnswersDownload == Len(downloaded') > Len(downloaded)
HandsOutDump == ~kept.held /\ kept'.held

\* two adjacent wait steps of the list with the same predicate and container
HasRepeatedWait(list) ==
  \E i \in 1..(Len(list) - 1) :
    /\ IsWait(list[i]) /\ IsWait(list[i + 1])
    /\ waitKey(list[i]) = waitKey(list[i + 1])

\* C29: collapsing repeated waits touches only the downloaded copy: a step
\* that answers a download or hands out a dump leaves the recorder's step
\* list as it was, so every wait step appended, repeated ones included, stays
\* there in order (steps are only ever appended, or the whole list cleared by
\* the next start()), and a payload once handed out keeps showing the steps
\* it was handed out with, whatever is appended afterwards.
C29_DumpAndDedupLeaveRecorderListAlone ==
  [][/\ (AnswersDownload \/ HandsOutDump) => steps' = steps
     /\ HandsOutDump => Items(kept)' = steps
     /\ kept.held => Items(kept)' = Items(kept)
     /\ steps' = <<>> \/ IsPrefix(steps, steps')]_vars

\* a download answered without a repeated wait while the recorder's list
\* still holds both, and a dump handed out earlier that does not show the
\* steps appended since
C29_Witness ==
  /\ Len(downloaded) = 1
  /\ ~HasRepeatedWait(downloaded[1])
  /\ HasRepeatedWait(steps)
  /\ Len(downloaded[1]) < Len(steps)
  /\ kept.held
  /\ Len(Items(kept)) < Len(steps)
  /\ IsPrefix(Items(kept), steps)

(***************************************************************************)
(* C30: the end of a FRL_POPUP_PLAY request.                               *)
(***************************************************************************)
\* the handler of the request has sent its response
PopupResponded == popup.pc = "responded"

\* C30: when the handling of a FRL_POPUP_PLAY request has finished (its one
\* response, ok or error, has been sent), whether playback succeeded, a wait
\* failed or attach failed, the debugger session of the playback is gone and
\* no replayer entry is registered for the tab.
C30_PopupPlayEndsDetachedAndUnregistered ==
  PopupResponded => ~session /\ ~entry

(***************************************************************************)
(* C31.  Wheel events are coalesced per element; a flush appends one       *)
(* scroll step holding the sums.                                           *)
(***************************************************************************)
IsScroll(st) == st.kind = "action" /\ st.name = "scroll"

Scroll(el, dx, dy) == [el |-> el, dx |-> dx, dy |-> dy]

ScrollOf(st) == Scroll(st.el, st.dx, st.dy)

\* the scroll steps of a list, in order
Scrolled(list) ==
  [i \in 1..Len(SelectSeq(list, IsScroll)) |-> ScrollOf(SelectSeq(list, IsScroll)[i])]

\* the pending buffer is given up in this step
Flushes == scrollBuffer.el # None /\ scrollBuffer'.el # scrollBuffer.el

HandlesWheel == wheel' # wheel

BeginsSession == ~isRecording /\ isRecording'

\* the buffer after a wheel event on el with deltas d
Buffered(buffer, el, d) ==
  IF buffer.el = el
  THEN [buffer EXCEPT !.dx = @ + d[1], !.dy = @ + d[2]]
  ELSE [NoBuffer EXCEPT !.el = el, !.dx = d[1], !.dy = d[2]]

\* less than 120 ms after a wheel event of this session the buffer still
\* holds the element of that event
WithinFlushMs ==
  /\ isRecording
  /\ wheel.el # None
  /\ wheel.session = sessions
  /\ scrollFlushTimer # NoTimer
  /\ now < scrollFlushTimer

StillBuffered == WithinFlushMs => scrollBuffer.el = wheel.el

\* C31: a wheel event on the element of the pending buffer adds its deltas
\* to the buffer and appends nothing; the buffer stays pending for 120 ms
\* after the last wheel event unless another element is scrolled or stop()
\* is called; whenever the buffer is given up (another element, the timer,
\* stop()) exactly one scroll step with the buffered sums is appended, and
\* no scroll step is appended or removed in any other way within a session.
C31_WheelEventsCoalescedAndFlushedOnce ==
  [][/\ HandlesWheel =>
          scrollBuffer' = Buffered(scrollBuffer, wheel'.el, wheel'.d)
     /\ ~HandlesWheel => scrollBuffer' \in {scrollBuffer, NoBuffer}
     /\ Flushes =>
          /\ Len(steps') = Len(steps) + 1
          /\ Scrolled(steps') =
               Append(Scrolled(steps),
                      Scroll(scrollBuffer.el, scrollBuffer.dx, scrollBuffer.dy))
     /\ ~Flushes =>
          \/ Scrolled(steps') = Scrolled(steps)
          \/ BeginsSession /\ steps' = <<>>
     /\ StillBuffered']_vars

\* two wheel events ended up in one scroll step holding both sums, and
\* a scroll of another element was recorded as a step of its own
C31_Witness ==
  /\ \E i \in 1..Len(steps) :
       IsScroll(steps[i]) /\ steps[i].dx = 2 /\ steps[i].dy = 4
  /\ \E i, j \in 1..Len(steps) :
       /\ IsScroll(steps[i]) /\ IsScroll(steps[j])
       /\ steps[i].el # steps[j].el

(***************************************************************************)
(* C32.  play() terminates; the ceilings of its sleeps and waits.          *)
(***************************************************************************)
Duration(i) == marks[i].endAt - marks[i].startAt

IsNavigate(st) == IsAction(st) /\ st.name = "navigate"

PlayRuns == play.pc \notin {"idle", "done", "rejected"}

\* every think-time sleep made so far is at most ms long
ThinksAtMost(ms) ==
  \A i \in 1..Len(trace) : \A k \in 1..Len(marks[i].think) : marks[i].think[k] <= ms

\* every navigation finished so far took at most nav ms and every predicate
\* wait finished so far at most wait ms
WaitsAtMost(nav, wait) ==
  \A i \in 1..Len(trace) :
    Finished(i) =>
      /\ IsNavigate(trace[i]) => Duration(i) <= nav
      /\ IsWait(trace[i]) => Duration(i) <= wait

\* C32 as stated: play() eventually resolves or rejects; each think-time
\* sleep is at most 1500 ms, each navigation wait at most 10 s and each
\* predicate wait at most 30 s.
C32_PlayTerminatesWithinStatedCeilings ==
  /\ [](ThinksAtMost(MaxThinkMs) /\ WaitsAtMost(DomReadyTimeoutMs, WaitTimeoutMs))
  /\ (PlayRuns ~> Settles)

\* C32 amended: play() eventually resolves or rejects; each think-time
\* sleep is at most 1500 ms; with commands that answer at once a navigation
\* wait ends at the first 100 ms check after 10 s (10.1 s) and a predicate
\* wait at the first 120 ms check after 30 s (30.12 s) at the latest.
C32_PlayTerminatesWithinCeilingPlusOnePoll ==
  /\ [](/\ ThinksAtMost(MaxThinkMs)
        /\ WaitsAtMost(DomReadyTimeoutMs + DomReadyPollMs, WaitTimeoutMs + WaitPollMs))
  /\ (PlayRuns ~> Settles)

\* play() rejected after a predicate wait that timed out at 30.12 s, the
\* step before it having been reached after a think time of 1500 ms
C32_Witness ==
  /\ play.pc = "rejected"
  /\ \E i \in 1..Len(trace) :
       /\ IsWait(trace[i]) /\ marks[i].timedOut
       /\ Duration(i) = WaitTimeoutMs + WaitPollMs
       /\ marks[i].think = <<MaxThinkMs>>

(***************************************************************************)
(* C33.  With overlapping FRL_POPUP_PLAY requests for the same tab, the    *)
(* completion or failure cleanup of the older request detaches only its    *)
(* own replayer and leaves the tabReplayers entry of the newer playback in *)
(* place.                                                                  *)
(***************************************************************************)
\* the handler of request q is past play() or in its catch block
CleansUp(q) ==
  \/ popups[q].pc = "detach" /\ popups[q].phase \in {"final", "catch"}
  \/ popups[q].pc = "responded"

\* a step of that part of the handler of request q
Cleaning(q) == popups'[q] # popups[q] /\ CleansUp(q)'

\* the cleanup of the older request leaves the newer replayer alone
SparesNewer(older, newer) ==
  Cleaning(older)
    => /\ popups'[older].pc = "detach" => popups'[older].target = older
       /\ tabReplayers = newer => tabReplayers' = newer

C33_CleanupTouchesOnlyOwnReplayer == [][SparesNewer(1, 2)]_vars

(***************************************************************************)
(* C34.  The commands of two playbacks never interleave on one tab: once a *)
(* command of another replayer has reached the page, no further command of *)
(* the earlier replayer reaches it.                                        *)
(***************************************************************************)
Interleaved(list) ==
  \E i, j, k \in DOMAIN list :
    /\ i < j /\ j < k
    /\ list[i].replayer = list[k].replayer
    /\ list[j].replayer # list[i].replayer

C34_CommandsOfPlaybacksNeverInterleave == ~Interleaved(reached)

(***************************************************************************)
(* C35.  Once FRL_STOP has been acknowledged and no FRL_START has been     *)
(* sent after it, the recorder is not recording, also when an earlier      *)
(* FRL_START was still awaiting getSettings(); and on a host the enabled   *)
(* allow list rejects the recorder is never recording.                     *)
(***************************************************************************)
C35_StoppedMeansNotRecording ==
  /\ stopped => ~isRecording
  /\ Skips => ~isRecording

(***************************************************************************)
(* C36.  Every waitForPredicate step of the current session's list follows *)
(* in that list the action step whose observation window produced it: a    *)
(* window still open from the session before never appends its wait, so    *)
(* the list never begins with a wait step.                                 *)
(***************************************************************************)
\* the action that opened the window of the wait at position i is in the list
FollowsItsAction(list, i) ==
  \E j \in 1..(i - 1) : IsAction(list[j]) /\ list[j].id = list[i].id

C36_WaitsBelongToTheCurrentSession ==
  \A i \in 1..Len(steps) : IsWait(steps[i]) => FollowsItsAction(steps, i)

(***************************************************************************)
(* C37.  Once stop() has returned no further action step is appended to    *)
(* the step list: stop() itself appends at most the pending scroll, and no *)
(* hover or scroll timer that is still pending adds an action afterwards.  *)
(***************************************************************************)
ActionsOf(list) == SelectSeq(list, IsAction)

\* stop() flushing the pending scroll as the one new step
StopFlushesScroll ==
  /\ isRecording
  /\ Flushes
  /\ steps' = Append(steps, steps'[Len(steps')])
  /\ IsScroll(steps'[Len(steps')])

C37_NoActionStepAfterStop ==
  [][(~isRecording' /\ ActionsOf(steps') # ActionsOf(steps)) => StopFlushesScroll]_vars

(***************************************************************************)
(* C38.  The onEvent/onDetach listeners of the replayer are registered     *)
(* exactly while it is attached: never more than one pair, and whenever no *)
(* attach() or detach() is under way the pair is registered if and only if *)
(* isAttached is set.                                                      *)
(***************************************************************************)
\* an attach() or a detach() is between its first and its last statement
UnderWay ==
  \/ att.pc \in {"begin", "attachDebugger", "enableDomains"}
  \/ \E c \in Callers : dets[c].pc \in {"run", "detachDebugger"}

C38_ListenersRegisteredExactlyWhileAttached ==
  /\ handlers.registered <= 1
  /\ ~UnderWay => (isAttached <=> handlers.registered = 1)

(***************************************************************************)
(* C39.  When attach() has failed, whether chrome.debugger.attach was      *)
(* rejected or an enable command was rejected after it, the replayer is    *)
(* not attached and no debugger session is open on the tab.                *)
(***************************************************************************)
AttachFailed == att.pc = "failed"

C39_FailedAttachLeavesNoSession ==
  AttachFailed => ~isAttached /\ ~session

(***************************************************************************)
(* C40.  A mouse-up with no text selection on the element of the           *)
(* mouse-down, as in an ordinary click, appends no step, so the gesture    *)
(* records the click alone; and a highlight step is appended only with a   *)
(* non-empty selection.                                                    *)
(***************************************************************************)
\* the drag step of a mouse-up on the element el of the mouse-down
DragOnto(el) == ActionStep("drag", el, el, "", FALSE, nextId, now, text)

\* the mouse-up of an ordinary click appends a drag step
ClickRecordsDrag ==
  /\ dragState.active
  /\ steps' = pushStep(steps, DragOnto(dragState.startEl))

IsHighlight(st) == IsAction(st) /\ st.name = "highlight"

C40_ClickGestureAppendsOnlyTheClick ==
  [][/\ ~ClickRecordsDrag
     /\ \A i \in 1..Len(steps') : IsHighlight(steps'[i]) => steps'[i].text # ""]_vars

====
